---- MODULE Spec2Model ----
(***************************************************************************)
(* ForestFloor desktop runtime: the control-to-audio command queue, the    *)
(* step sequencer and the audio callback of apps/desktop/src/runtime.cpp,  *)
(* over the voice engine of packages/engine-cpp/src/engine.cpp.            *)
(*                                                                         *)
(* Number representation.  The code computes in float/double; the model    *)
(* computes the same quantities exactly, on integer grids chosen so that   *)
(* every value the bounded inputs produce is a dyadic rational the code    *)
(* also holds exactly:                                                     *)
(*   - sample counts held in a double (samples_to_next_step, remaining,    *)
(*     consumed) are in sixteenths of a sample (Samples(n) = 16 n);        *)
(*   - a unit velocity v/127 is held as its numerator v in 0..127;         *)
(*   - a track parameter is held in units of 1/12700 (Centi(c) = 127 c),   *)
(*     the grid that holds both hundredths and 127ths;                     *)
(*   - tempo is in whole bpm and swing in hundredths.                      *)
(* A sample buffer is represented by its length in frames.                 *)
(***************************************************************************)
EXTENDS Integers, Sequences, FiniteSets, TLC

(* ----------------------------------------------------------------------- *)
(* Program constants                                                       *)
(* ----------------------------------------------------------------------- *)
kTrackCount == 8
kSteps == 16
kDefaultPadBaseNote == 36

(* ----------------------------------------------------------------------- *)
(* Bounds of the model                                                     *)
(* ----------------------------------------------------------------------- *)
\* enqueueCommand refuses at pending_commands_.size() >= 4'096U.  The limit
\* is scaled down so that a full queue is reached within the call budget;
\* every formula about the limit is stated against QueueCapacity.
QueueCapacity == 3
\* control-side calls (UI and MIDI threads together) in one behaviour
MaxCalls == 3
\* audio callbacks in one behaviour
MaxCallbacks == 2
\* MIDI-side calls (learn requests and incoming messages) explored
MaxMidiCalls == 5

\* The FF_PARAM_* parameter-id layout of ff/abi: the header that defines it
\* is not among the sources.  An id is base + track * stride + slot, with six
\* slots below the stride; the numbers stand for that layout and every
\* formula about ids is stated against the names.
FF_PARAM_TRACK_BASE == 4096
FF_PARAM_TRACK_STRIDE == 16
FF_PARAM_SLOT_GAIN == 1
FF_PARAM_SLOT_PAN == 2
FF_PARAM_SLOT_FILTER_CUTOFF == 3
FF_PARAM_SLOT_ENVELOPE_DECAY == 4
FF_PARAM_SLOT_PITCH == 5
FF_PARAM_SLOT_CHOKE_GROUP == 6

Tracks == 0 .. (kTrackCount - 1)
Steps == 0 .. (kSteps - 1)

Samples(n) == n * 16
Centi(c) == c * 127

Min(a, b) == IF a <= b THEN a ELSE b
Max(a, b) == IF a >= b THEN a ELSE b
Clamp(x, lo, hi) == IF x < lo THEN lo ELSE IF x > hi THEN hi ELSE x

(* ----------------------------------------------------------------------- *)
(* Engine (packages/engine-cpp)                                            *)
(* ----------------------------------------------------------------------- *)
\* TrackParameters{} : gain 1, pan 0, filter_cutoff 1, envelope_decay 1,
\* pitch_semitones 0, choke_group -1.
DefaultTrackParameters ==
  [gain |-> Centi(100), pan |-> 0, filter_cutoff |-> Centi(100),
   envelope_decay |-> Centi(100), pitch_semitones |-> 0, choke_group |-> -1]

\* TrackVoice{} : empty sample, everything zero, inactive.  envelope_age is
\* the envelope_value: -1 stands for 0.0F and n >= 0 for 1.0F decayed over n
\* frames; filter_age likewise counts the frames the one-pole filter has run
\* since filter_state was last set to 0.0F.
DefaultTrackVoice ==
  [sample |-> 0, playhead |-> 0, trigger_velocity |-> 0, envelope_age |-> -1,
   filter_age |-> 0, active |-> FALSE, parameters |-> DefaultTrackParameters]

\* AudioDeviceConfig{} : device "default", 48 kHz, 256 frames
DefaultAudioDeviceConfig ==
  [device_id |-> "default", sample_rate_hz |-> 48000, buffer_size_frames |-> 256]

\* Engine{} : eight default voices, transport_ = {120 bpm, stopped}.
DefaultEngine ==
  [tracks |-> [t \in Tracks |-> DefaultTrackVoice],
   transport |-> [bpm |-> 120, is_playing |-> FALSE],
   pad_base_note |-> kDefaultPadBaseNote,
   audio_device_config |-> DefaultAudioDeviceConfig,
   profiling_enabled |-> FALSE,
   performance_stats |-> [processed_blocks |-> 0, xrun_count |-> 0]]

clampVelocity(v) == Clamp(v, 0, 127)
clampGain(g) == Clamp(g, 0, Centi(200))
clampPan(p) == Clamp(p, Centi(-100), Centi(100))
clampFilterCutoff(c) == Clamp(c, 0, Centi(100))
clampEnvelopeDecay(d) == Clamp(d, 0, Centi(100))
clampPitchSemitones(s) == Clamp(s, Centi(-2400), Centi(2400))
clampChokeGroup(g) == IF g < 0 THEN -1 ELSE Min(g, 15)
clampNormalized(v) == Clamp(v, 0, 127)

\* normalizedToChokeGroup truncating the product in place of rounding it.
normalizedToChokeGroup_Truncating(normalized) ==
  LET clamped == clampNormalized(normalized)
  IN IF clamped = 0 THEN -1
     ELSE Clamp(((16 * clamped) \div 127) - 1, 0, 15)

\* lround(clamped * 16) - 1 clamped to [0,15], -1 at or below 0.0001; the
\* argument is the numerator of a value in 127ths.
normalizedToChokeGroup(normalized) ==
  LET clamped == clampNormalized(normalized)
  IN IF clamped = 0 THEN -1
     ELSE Clamp(((32 * clamped + 127) \div 254) - 1, 0, 15)

\* pow(2, semitones / 12) in sixteenths; the model's parameter inputs keep
\* the pitch on whole octaves, where the ratio is exact.
pitchRatio(semitones) ==
  CASE semitones = Centi(-2400) -> 4
    [] semitones = Centi(-1200) -> 8
    [] semitones = 0 -> 16
    [] semitones = Centi(1200) -> 32
    [] semitones = Centi(2400) -> 64

\* Frames after which envelope_value, multiplied once per frame by
\* exp(-1 / (decay_seconds * sample_rate)) with decay_seconds = 0.02 + 3 decay,
\* is first below 0.0001: ln(10^4) = 9.210 time constants of
\* decay_seconds * sample_rate frames each, in real arithmetic and to the
\* precision of whole frames per time constant.
EnvelopeLife(decay, sample_rate) ==
  (((((254 + 3 * decay) * sample_rate) \div 12700) * 9210) \div 1000) + 1

CeilDiv(a, b) == (a + b - 1) \div b

\* The voice without the envelope threshold: only the end of the sample
\* stops it.
ProcessVoice_NoEnvelopeCutoff(v, frames, sample_rate) ==
  IF ~v.active \/ frames = 0 THEN v
  ELSE IF v.sample = 0 THEN [v EXCEPT !.active = FALSE]
  ELSE
    LET r == pitchRatio(v.parameters.pitch_semitones)
        to_end == Max(1, CeilDiv(Samples(v.sample) - v.playhead, r))
        played == Min(frames, to_end)
    IN [v EXCEPT !.playhead = v.playhead + played * r,
                 !.envelope_age = v.envelope_age + played,
                 !.filter_age = v.filter_age + played,
                 !.active = (played < to_end)]

\* One voice over `frames` frames of Engine::process: each frame on which the
\* voice is active advances the playhead by the pitch ratio and decays the
\* envelope; the voice goes inactive on the frame where the playhead reaches
\* the sample length or the envelope falls below the threshold.
ProcessVoice(v, frames, sample_rate) ==
  IF ~v.active \/ frames = 0 THEN v
  ELSE IF v.sample = 0 THEN [v EXCEPT !.active = FALSE]
  ELSE
    LET r == pitchRatio(v.parameters.pitch_semitones)
        to_end == Max(1, CeilDiv(Samples(v.sample) - v.playhead, r))
        to_silence ==
          Max(1, EnvelopeLife(v.parameters.envelope_decay, sample_rate)
                   - v.envelope_age)
        played == Min(frames, Min(to_end, to_silence))
    IN [v EXCEPT !.playhead = v.playhead + played * r,
                 !.envelope_age = v.envelope_age + played,
                 !.filter_age = v.filter_age + played,
                 !.active = (played < to_end /\ played < to_silence)]

\* Engine::process(buffer, frames)
EngineProcess(e, frames, sample_rate) ==
  [e EXCEPT !.tracks = [t \in Tracks |-> ProcessVoice(e.tracks[t], frames, sample_rate)]]

\* setTrackSample replacing the buffer only: a sounding voice plays on.
EngineSetTrackSample_KeepsVoice(e, track_index, sample) ==
  IF track_index \notin Tracks \/ sample = 0 THEN <<e, FALSE>>
  ELSE <<[e EXCEPT !.tracks[track_index].sample = sample], TRUE>>

\* Engine::setTrackSample; the result is the pair <<engine, returned bool>>.
EngineSetTrackSample(e, track_index, sample) ==
  IF track_index \notin Tracks \/ sample = 0 THEN <<e, FALSE>>
  ELSE <<[e EXCEPT !.tracks[track_index] =
            [@ EXCEPT !.sample = sample, !.playhead = 0, !.active = FALSE,
                      !.trigger_velocity = 0, !.envelope_age = -1,
                      !.filter_age = 0]], TRUE>>

\* clearTrackSample emptying the buffer only: a sounding voice stays active.
EngineClearTrackSample_KeepsVoice(e, track_index) ==
  IF track_index \notin Tracks THEN e
  ELSE [e EXCEPT !.tracks[track_index].sample = 0]

\* Engine::clearTrackSample
EngineClearTrackSample(e, track_index) ==
  IF track_index \notin Tracks THEN e
  ELSE [e EXCEPT !.tracks[track_index] =
          [@ EXCEPT !.sample = 0, !.playhead = 0, !.trigger_velocity = 0,
                    !.envelope_age = -1, !.filter_age = 0, !.active = FALSE]]

\* triggerTrack without the choke loop: the other voices are left playing.
EngineTriggerTrack_NoChoke(e, track_index, velocity) ==
  IF track_index \notin Tracks THEN <<e, FALSE>>
  ELSE IF e.tracks[track_index].sample = 0 THEN <<e, FALSE>>
  ELSE
    LET vel == clampVelocity(velocity)
    IN <<[e EXCEPT !.tracks[track_index] =
            [@ EXCEPT !.playhead = 0, !.trigger_velocity = vel,
                      !.envelope_age = 0, !.filter_age = 0,
                      !.active = (vel > 0)]], vel > 0>>

\* Engine::triggerTrack
EngineTriggerTrack(e, track_index, velocity) ==
  IF track_index \notin Tracks THEN <<e, FALSE>>
  ELSE IF e.tracks[track_index].sample = 0 THEN <<e, FALSE>>
  ELSE
    LET group == e.tracks[track_index].parameters.choke_group
        choked(t) == /\ group >= 0
                     /\ t # track_index
                     /\ e.tracks[t].active
                     /\ e.tracks[t].parameters.choke_group = group
        vel == clampVelocity(velocity)
        tracks1 == [t \in Tracks |->
                      IF choked(t) THEN [e.tracks[t] EXCEPT !.active = FALSE]
                      ELSE e.tracks[t]]
        tracks2 == [tracks1 EXCEPT ![track_index] =
                      [@ EXCEPT !.playhead = 0, !.trigger_velocity = vel,
                                !.envelope_age = 0, !.filter_age = 0,
                                !.active = (vel > 0)]]
    IN <<[e EXCEPT !.tracks = tracks2], vel > 0>>

\* setTrackParameters storing its argument as it comes, without the clamps.
EngineSetTrackParameters_Unclamped(e, track_index, parameters) ==
  IF track_index \notin Tracks THEN <<e, FALSE>>
  ELSE <<[e EXCEPT !.tracks[track_index].parameters = parameters], TRUE>>

\* Engine::setTrackParameters
EngineSetTrackParameters(e, track_index, parameters) ==
  IF track_index \notin Tracks THEN <<e, FALSE>>
  ELSE <<[e EXCEPT !.tracks[track_index].parameters =
            [gain |-> clampGain(parameters.gain),
             pan |-> clampPan(parameters.pan),
             filter_cutoff |-> clampFilterCutoff(parameters.filter_cutoff),
             envelope_decay |-> clampEnvelopeDecay(parameters.envelope_decay),
             pitch_semitones |-> clampPitchSemitones(parameters.pitch_semitones),
             choke_group |-> clampChokeGroup(parameters.choke_group)]], TRUE>>

\* applyParameterUpdate with no default case: a slot outside the six is
\* taken for the gain slot.
EngineApplyParameterUpdate_AnySlot(e, parameter_id, normalized_value) ==
  IF parameter_id < FF_PARAM_TRACK_BASE THEN <<e, FALSE>>
  ELSE
    LET track_offset == parameter_id - FF_PARAM_TRACK_BASE
        track_index == track_offset \div FF_PARAM_TRACK_STRIDE
        slot == track_offset % FF_PARAM_TRACK_STRIDE
        clamped == clampNormalized(normalized_value)
    IN IF track_index >= kTrackCount THEN <<e, FALSE>>
       ELSE
         LET p == e.tracks[track_index].parameters
         IN CASE slot = FF_PARAM_SLOT_PAN ->
                   EngineSetTrackParameters(e, track_index,
                     [p EXCEPT !.pan = 200 * clamped - Centi(100)])
              [] slot = FF_PARAM_SLOT_FILTER_CUTOFF ->
                   EngineSetTrackParameters(e, track_index,
                     [p EXCEPT !.filter_cutoff = 100 * clamped])
              [] slot = FF_PARAM_SLOT_ENVELOPE_DECAY ->
                   EngineSetTrackParameters(e, track_index,
                     [p EXCEPT !.envelope_decay = 100 * clamped])
              [] slot = FF_PARAM_SLOT_PITCH ->
                   EngineSetTrackParameters(e, track_index,
                     [p EXCEPT !.pitch_semitones = 4800 * clamped - Centi(2400)])
              [] slot = FF_PARAM_SLOT_CHOKE_GROUP ->
                   EngineSetTrackParameters(e, track_index,
                     [p EXCEPT !.choke_group = normalizedToChokeGroup(clamped)])
              [] OTHER ->
                   EngineSetTrackParameters(e, track_index,
                     [p EXCEPT !.gain = 200 * clamped])

\* Engine::applyParameterUpdate.  The id is the flat uint32_t; the normalized
\* value is the numerator of a value in 127ths.
EngineApplyParameterUpdate(e, parameter_id, normalized_value) ==
  IF parameter_id < FF_PARAM_TRACK_BASE THEN <<e, FALSE>>
  ELSE
    LET track_offset == parameter_id - FF_PARAM_TRACK_BASE
        track_index == track_offset \div FF_PARAM_TRACK_STRIDE
        slot == track_offset % FF_PARAM_TRACK_STRIDE
        clamped == clampNormalized(normalized_value)
    IN IF track_index >= kTrackCount THEN <<e, FALSE>>
       ELSE
         LET p == e.tracks[track_index].parameters
         IN CASE slot = FF_PARAM_SLOT_GAIN ->
                   EngineSetTrackParameters(e, track_index,
                     [p EXCEPT !.gain = 200 * clamped])
              [] slot = FF_PARAM_SLOT_PAN ->
                   EngineSetTrackParameters(e, track_index,
                     [p EXCEPT !.pan = 200 * clamped - Centi(100)])
              [] slot = FF_PARAM_SLOT_FILTER_CUTOFF ->
                   EngineSetTrackParameters(e, track_index,
                     [p EXCEPT !.filter_cutoff = 100 * clamped])
              [] slot = FF_PARAM_SLOT_ENVELOPE_DECAY ->
                   EngineSetTrackParameters(e, track_index,
                     [p EXCEPT !.envelope_decay = 100 * clamped])
              [] slot = FF_PARAM_SLOT_PITCH ->
                   EngineSetTrackParameters(e, track_index,
                     [p EXCEPT !.pitch_semitones = 4800 * clamped - Centi(2400)])
              [] slot = FF_PARAM_SLOT_CHOKE_GROUP ->
                   EngineSetTrackParameters(e, track_index,
                     [p EXCEPT !.choke_group = normalizedToChokeGroup(clamped)])
              [] OTHER -> <<e, FALSE>>

\* Engine::handleMidiNoteOn(note, velocity) of two uint8_t: a zero velocity
\* and a note outside the eight pads return false before anything is touched;
\* otherwise triggerTrack(note - pad_base_note_, velocity / 127.0F).
EngineHandleMidiNoteOn(e, note, velocity) ==
  IF velocity = 0 THEN <<e, FALSE>>
  ELSE IF note < e.pad_base_note THEN <<e, FALSE>>
  ELSE IF note - e.pad_base_note >= kTrackCount THEN <<e, FALSE>>
  ELSE EngineTriggerTrack(e, note - e.pad_base_note, velocity)

\* Engine::recordProcessTiming over the `blocks` process calls of one callback,
\* `overruns` of which took longer than their budget.  process calls it only
\* while profiling is enabled.
recordProcessTiming(e, blocks, overruns) ==
  IF ~e.profiling_enabled THEN e
  ELSE [e EXCEPT !.performance_stats.processed_blocks = @ + blocks,
                 !.performance_stats.xrun_count = @ + overruns]

\* Engine::startTransport / stopTransport / setTempoBpm
EngineStartTransport(e) == [e EXCEPT !.transport.is_playing = TRUE]
EngineStopTransport(e) == [e EXCEPT !.transport.is_playing = FALSE]
EngineSetTempoBpm(e, bpm) == [e EXCEPT !.transport.bpm = Clamp(bpm, 20, 300)]

\* Engine::setAudioDeviceConfig : <<engine, returned bool>>
EngineSetAudioDeviceConfig(e, config) ==
  IF config.sample_rate_hz = 0 \/ config.buffer_size_frames = 0
  THEN <<e, FALSE>>
  ELSE <<[e EXCEPT !.audio_device_config = config], TRUE>>

(* ----------------------------------------------------------------------- *)
(* Runtime state (apps/desktop/src/runtime.hpp)                            *)
(* ----------------------------------------------------------------------- *)
VARIABLES
  pending_commands,     \* std::vector<Command> pending_commands_
  command_mutex,        \* "free", or "control" while a caller is in enqueueCommand
  engine,               \* ff::engine::Engine engine_
  sequencer,            \* SequencerState sequencer_ (audio thread only)
  steps,                \* steps_[track][step] : 0 inactive, 1..127 velocity
  track_choke_groups,   \* track_choke_groups_
  transport_running,    \* std::atomic<bool> transport_running_
  tempo_bpm,            \* std::atomic<float> tempo_bpm_
  swing,                \* std::atomic<float> swing_, in hundredths
  playhead_step,        \* std::atomic<uint32_t> playhead_step_
  timeline_sample,      \* std::atomic<uint64_t> timeline_sample_
  project_model,        \* ProjectModel project_model_ (under project_mutex_)
  active_learn,         \* active_learn_[0]; an optional is <<>> or <<value>>
  cc_bindings,          \* cc_bindings_
  last_learned_binding, \* last_learned_binding_
  sample_rate_hz,       \* config_.audio.sample_rate_hz
  buffer_size_frames,   \* config_.audio.buffer_size_frames
  device_id,            \* config_.audio.device_id
  is_running,           \* std::atomic<bool> running_ (isRunning())
  project_file,         \* the project file on disk: <<>> or <<lines>>
  host,                 \* ff::plugin_host::Host
  project_mutex,        \* project_mutex_: "free" or the call that holds it
  midi_mutex,           \* midi_mutex_: "free" or the call that holds it
  runtime_status,       \* the RuntimeStatus the last status() call returned
  saved_project,        \* history: the model last given to saveProjectToFile
  restored,             \* the ProjectModel loadProjectFromFile last filled in
  control,              \* the control-side call in progress and its position
  audio,                \* the audio callback in progress and its locals
  render_log,           \* engine calls made by the current/last callback
  accepted,             \* history: commands enqueueCommand accepted, in order
  processed,            \* history: commands the drain loop handled, in order
  calls,                \* history: control-side calls begun
  callbacks             \* history: audio callbacks begun

midiVars == <<active_learn, cc_bindings, last_learned_binding>>
atomicVars == <<transport_running, tempo_bpm, swing, playhead_step, timeline_sample>>
audioVars == <<sequencer, audio, render_log, processed, callbacks>>
outerVars == <<sample_rate_hz, buffer_size_frames, device_id, is_running,
               project_file, host, project_mutex, midi_mutex, runtime_status,
               saved_project, restored>>
vars == <<pending_commands, command_mutex, engine, sequencer, steps,
          track_choke_groups, transport_running, tempo_bpm, swing,
          playhead_step, timeline_sample, project_model, active_learn,
          cc_bindings, last_learned_binding, sample_rate_hz, buffer_size_frames,
          device_id, is_running, project_file, host, project_mutex,
          midi_mutex, runtime_status, saved_project, restored, control, audio,
          render_log, accepted, processed, calls, callbacks>>

\* ProjectModel{} : default name, 120 bpm, no swing, default tracks without a
\* sample, every cell inactive with velocity 100
DefaultProjectModel ==
  [name |-> <<[kind |-> "chars", chars |-> "Forest Floor Session", number |-> 0]>>,
        bpm |-> 120, swing |-> 0,
   tracks |-> [t \in Tracks |->
      [sample_path |-> "", parameters |-> DefaultTrackParameters]],
   pattern |-> [t \in Tracks |-> [s \in Steps |->
      [active |-> FALSE, velocity |-> 100]]]]

\* RuntimeStatus{} : the members status() takes from state the audio thread
\* writes, and the learned binding
DefaultRuntimeStatus ==
  [transport_running |-> FALSE, playhead_step |-> 0, timeline_sample |-> 0,
   engine_xruns |-> 0, learned_cc_binding |-> <<>>]

\* Host{} : no plugin registered
DefaultHost == [plugins |-> <<>>, result |-> "none", calls |-> 0]

\* Command{} with its type set
Command(type) ==
  [type |-> type, track_index |-> 0, value_a |-> 0, value_b |-> 0,
   track_parameters |-> DefaultTrackParameters, sample_data |-> 0,
   parameter_id |-> 0]

\* clampVelocityToUnit: clamp(velocity / 127, 0, 1) of a uint8_t, in 127ths
clampVelocityToUnit(velocity) == Clamp(velocity, 0, 127)

\* The constructor's starter pattern (setStep calls of Runtime::Runtime).
StarterPattern ==
  [t \in Tracks |-> [s \in Steps |->
     CASE t = 0 /\ s \in {0, 8} -> 127
       [] t = 0 /\ s \in {4, 12} -> 120
       [] t = 1 /\ s \in {4, 12} -> 118
       [] t = 2 /\ s % 2 = 0 -> 95
       [] t = 3 /\ s \in {2, 10} -> 90
       [] OTHER -> 0]]

hat_closed ==
  [DefaultTrackParameters EXCEPT !.choke_group = 1,
     !.envelope_decay = Centi(25), !.filter_cutoff = Centi(80)]
hat_open ==
  [DefaultTrackParameters EXCEPT !.choke_group = 1,
     !.envelope_decay = Centi(65), !.filter_cutoff = Centi(85)]

SetTrackParametersCommand(track_index, parameters) ==
  [Command("kSetTrackParameters") EXCEPT !.track_index = track_index,
                                         !.track_parameters = parameters]

ControlIdle == [pc |-> "idle", op |-> "none", command |-> Command("kStartTransport"),
                arg |-> 0, result |-> "none"]
AudioIdle == [pc |-> "idle", frames |-> 0, events |-> <<>>, drained |-> FALSE,
              batch |-> <<>>,
              entry_timeline |-> 0, entry_step |-> 0, entry_running |-> FALSE]

\* The state Runtime::Runtime leaves: the starter pattern stored, and the two
\* hat parameter sets mirrored and queued by setTrackParameters(2, ..) and
\* setTrackParameters(4, ..); no audio callback has run yet.
Init ==
  /\ pending_commands = << SetTrackParametersCommand(2, hat_closed),
                           SetTrackParametersCommand(4, hat_open) >>
  /\ command_mutex = "free"
  /\ engine = DefaultEngine
  /\ sequencer = [current_step |-> 0, samples_to_next_step |-> 0,
                  timeline_sample |-> 0, emit_step_on_next_process |-> FALSE,
                  callbacks_since_start |-> 0]
  /\ steps = StarterPattern
  /\ track_choke_groups = [t \in Tracks |-> IF t \in {2, 4} THEN 1 ELSE -1]
  /\ transport_running = FALSE
  /\ tempo_bpm = 120
  /\ swing = 0
  /\ playhead_step = 0
  /\ timeline_sample = 0
  /\ project_model =
       [name |-> <<[kind |-> "chars", chars |-> "Forest Floor Session", number |-> 0]>>,
        bpm |-> 120, swing |-> 0,
        tracks |-> [t \in Tracks |->
           [sample_path |-> "",
            parameters |-> CASE t = 2 -> hat_closed
                             [] t = 4 -> hat_open
                             [] OTHER -> DefaultTrackParameters]],
        pattern |-> [t \in Tracks |-> [s \in Steps |->
           [active |-> StarterPattern[t][s] > 0,
            velocity |-> IF StarterPattern[t][s] = 0 THEN 100
                         ELSE StarterPattern[t][s]]]]]
  /\ active_learn = <<>>
  /\ cc_bindings = [cc \in 0 .. 127 |-> <<>>]
  /\ last_learned_binding = <<>>
  /\ sample_rate_hz = 48000
  /\ buffer_size_frames = 256
  /\ device_id = "default"
  /\ is_running = FALSE
  /\ project_file = <<>>
  /\ host = DefaultHost
  /\ project_mutex = "free"
  /\ midi_mutex = "free"
  /\ runtime_status = DefaultRuntimeStatus
  /\ saved_project = <<>>
  /\ restored = <<>>
  /\ control = ControlIdle
  /\ audio = AudioIdle
  /\ render_log = <<>>
  /\ accepted = << SetTrackParametersCommand(2, hat_closed),
                   SetTrackParametersCommand(4, hat_open) >>
  /\ processed = <<>>
  /\ calls = 0
  /\ callbacks = 0

(* ----------------------------------------------------------------------- *)
(* Sequencer                                                               *)
(* ----------------------------------------------------------------------- *)
\* std::llround of a non-negative count held in sixteenths: halves away
\* from zero.
LLRound(x) == (x + 8) \div 16

\* stepIntervalSamples lengthening the even steps and leaving the odd steps
\* at the base interval.
stepIntervalSamples_LongOdd(step_index) ==
  LET bpm == Clamp(tempo_bpm, 20, 300)
      sample_rate == Max(1, sample_rate_hz)
      base == (Samples(sample_rate) * 60) \div (bpm * 4)
      swing_amount == Clamp(swing, 0, 45)
  IN IF swing_amount <= 0 THEN base
     ELSE IF step_index % 2 = 0 THEN (base * (100 + swing_amount)) \div 100
     ELSE base

\* Runtime::stepIntervalSamples, in sixteenths of a sample:
\* sample_rate * 60 / bpm / 4, times (1 + swing) on even and (1 - swing) on
\* odd steps when swing is above epsilon.
stepIntervalSamples(step_index) ==
  LET bpm == Clamp(tempo_bpm, 20, 300)
      sample_rate == Max(1, sample_rate_hz)
      base == (Samples(sample_rate) * 60) \div (bpm * 4)
      swing_amount == Clamp(swing, 0, 45)
  IN IF swing_amount <= 0 THEN base
     ELSE IF step_index % 2 = 0 THEN (base * (100 + swing_amount)) \div 100
     ELSE (base * (100 - swing_amount)) \div 100

\* Runtime::collectStepEvents: one event per active cell of the step, in
\* track order, appended to the events.
collectStepEvents(step_index, block_offset, events) ==
  IF step_index >= kSteps THEN events
  ELSE
    LET cells == [i \in 1 .. kTrackCount |->
                    [offset |-> block_offset, track_index |-> i - 1,
                     velocity |-> clampVelocityToUnit(steps[i - 1][step_index])]]
    IN events \o SelectSeq(cells, LAMBDA e : steps[e.track_index][step_index] > 0)

\* The loop storing the remainder to the next step in whole frames: the
\* fraction of a sample is dropped at the end of every block.
RECURSIVE SequencerLoop_WholeFrames(_, _, _, _)
SequencerLoop_WholeFrames(st, remaining, consumed, frames) ==
  IF remaining <= 0 THEN st
  ELSE IF st.sequencer.samples_to_next_step <= remaining
  THEN
    LET step_advance == Max(0, st.sequencer.samples_to_next_step)
        consumed1 == consumed + step_advance
        next_step == (st.sequencer.current_step + 1) % kSteps
        offset == Min(frames, LLRound(consumed1))
    IN SequencerLoop_WholeFrames(
         [sequencer |-> [st.sequencer EXCEPT
                           !.current_step = next_step,
                           !.samples_to_next_step = stepIntervalSamples(next_step)],
          playhead_step |-> next_step,
          events |-> collectStepEvents(next_step, offset, st.events)],
         remaining - step_advance, consumed1, frames)
  ELSE [st EXCEPT !.sequencer.samples_to_next_step =
                     Samples((@ - remaining) \div 16)]

\* The loop with a strict comparison: a step due exactly at the end of the
\* block is left for the next callback.
RECURSIVE SequencerLoop_Strict(_, _, _, _)
SequencerLoop_Strict(st, remaining, consumed, frames) ==
  IF remaining <= 0 THEN st
  ELSE IF st.sequencer.samples_to_next_step < remaining
  THEN
    LET step_advance == Max(0, st.sequencer.samples_to_next_step)
        consumed1 == consumed + step_advance
        next_step == (st.sequencer.current_step + 1) % kSteps
        offset == Min(frames, LLRound(consumed1))
    IN SequencerLoop_Strict(
         [sequencer |-> [st.sequencer EXCEPT
                           !.current_step = next_step,
                           !.samples_to_next_step = stepIntervalSamples(next_step)],
          playhead_step |-> next_step,
          events |-> collectStepEvents(next_step, offset, st.events)],
         remaining - step_advance, consumed1, frames)
  ELSE [st EXCEPT !.sequencer.samples_to_next_step = @ - remaining]

\* The while (remaining > 0.0) loop of Runtime::processSequencer.  st holds
\* the sequencer state, the published playhead step and the events;
\* remaining and consumed are in sixteenths.
RECURSIVE SequencerLoop(_, _, _, _)
SequencerLoop(st, remaining, consumed, frames) ==
  IF remaining <= 0 THEN st
  \* samples_to_next_step <= remaining + epsilon: on the sixteenths grid two
  \* values differ by 0 or by at least 1/16, so the epsilon decides nothing.
  ELSE IF st.sequencer.samples_to_next_step <= remaining
  THEN
    LET step_advance == Max(0, st.sequencer.samples_to_next_step)
        consumed1 == consumed + step_advance
        next_step == (st.sequencer.current_step + 1) % kSteps
        offset == Min(frames, LLRound(consumed1))
    IN SequencerLoop(
         [sequencer |-> [st.sequencer EXCEPT
                           !.current_step = next_step,
                           !.samples_to_next_step = stepIntervalSamples(next_step)],
          playhead_step |-> next_step,
          events |-> collectStepEvents(next_step, offset, st.events)],
         remaining - step_advance, consumed1, frames)
  ELSE [st EXCEPT !.sequencer.samples_to_next_step = @ - remaining]

\* processSequencer without the early-return advance: the timeline stands
\* still while the transport is stopped.
processSequencer_StoppedTimeline(frames, st) ==
  LET advance(x) == [x EXCEPT !.sequencer.timeline_sample = @ + frames]
  IN IF frames = 0 \/ ~transport_running THEN st
     ELSE
       LET armed == st.sequencer.emit_step_on_next_process
           st1 == IF armed
                  THEN [st EXCEPT
                          !.events = collectStepEvents(st.sequencer.current_step, 0, @),
                          !.sequencer.emit_step_on_next_process = FALSE,
                          !.sequencer.samples_to_next_step =
                             stepIntervalSamples(st.sequencer.current_step)]
                  ELSE st
       IN advance(SequencerLoop(st1, Samples(frames), 0, frames))

\* processSequencer that clears the emit flag without emitting the armed step.
processSequencer_DropsArmedStep(frames, st) ==
  LET advance(x) == [x EXCEPT !.sequencer.timeline_sample = @ + frames]
  IN IF frames = 0 \/ ~transport_running THEN advance(st)
     ELSE
       LET armed == st.sequencer.emit_step_on_next_process
           st1 == IF armed
                  THEN [st EXCEPT
                          !.sequencer.emit_step_on_next_process = FALSE,
                          !.sequencer.samples_to_next_step =
                             stepIntervalSamples(st.sequencer.current_step)]
                  ELSE st
       IN advance(SequencerLoop(st1, Samples(frames), 0, frames))

\* Runtime::processSequencer(frames, sequencer_, &events)
processSequencer(frames, st) ==
  \* timeline_sample is a uint64_t; the bounded runs stay far below 2^64
  LET advance(x) == [x EXCEPT !.sequencer.timeline_sample = @ + frames]
  IN IF frames = 0 \/ ~transport_running THEN advance(st)
     ELSE
       LET armed == st.sequencer.emit_step_on_next_process
           st1 == IF armed
                  THEN [st EXCEPT
                          !.events = collectStepEvents(st.sequencer.current_step, 0, @),
                          !.sequencer.emit_step_on_next_process = FALSE,
                          !.sequencer.samples_to_next_step =
                             stepIntervalSamples(st.sequencer.current_step)]
                  ELSE st
       IN advance(SequencerLoop(st1, Samples(frames), 0, frames))

(* ----------------------------------------------------------------------- *)
(* Command drain                                                           *)
(* ----------------------------------------------------------------------- *)
\* The loop body with a StartTransport case that resets current_step and
\* does not publish the playhead step.
ApplyCommand_KeepsPlayhead(command, st) ==
  CASE command.type = "kStartTransport" ->
         [st EXCEPT !.transport_running = TRUE,
                    !.engine = EngineStartTransport(@),
                    !.sequencer.emit_step_on_next_process = TRUE,
                    !.sequencer.current_step = 0,
                    !.sequencer.samples_to_next_step = stepIntervalSamples(0)]
    [] command.type = "kStopTransport" ->
         [st EXCEPT !.transport_running = FALSE,
                    !.engine = EngineStopTransport(@),
                    !.sequencer.emit_step_on_next_process = FALSE]
    [] command.type = "kSetTempo" ->
         [st EXCEPT !.engine = EngineSetTempoBpm(@, command.value_a),
                    !.sequencer.samples_to_next_step =
                       Min(@, stepIntervalSamples(st.sequencer.current_step))]
    [] command.type = "kSetSwing" ->
         [st EXCEPT !.sequencer.samples_to_next_step =
                       Min(@, stepIntervalSamples(st.sequencer.current_step))]
    [] command.type = "kTriggerTrack" ->
         [st EXCEPT !.events = Append(@,
                       [offset |-> 0, track_index |-> command.track_index,
                        velocity |-> Clamp(command.value_a, 0, 127)])]
    [] command.type = "kSetTrackParameters" ->
         [st EXCEPT !.engine = EngineSetTrackParameters(
                       @, command.track_index, command.track_parameters)[1]]
    [] command.type = "kSetTrackSample" ->
         [st EXCEPT !.engine = EngineSetTrackSample(
                       @, command.track_index, command.sample_data)[1]]
    [] command.type = "kApplyEngineParameter" ->
         [st EXCEPT !.engine = EngineApplyParameterUpdate(
                       @, command.parameter_id, command.value_a)[1]]

\* The loop body with a TriggerTrack case that calls engine.triggerTrack at
\* once, in queue order, and collects no event.
ApplyCommand_TriggersAtOnce(command, st) ==
  CASE command.type = "kStartTransport" ->
         [st EXCEPT !.transport_running = TRUE,
                    !.engine = EngineStartTransport(@),
                    !.sequencer.emit_step_on_next_process = TRUE,
                    !.sequencer.current_step = 0,
                    !.sequencer.samples_to_next_step = stepIntervalSamples(0),
                    !.playhead_step = 0]
    [] command.type = "kStopTransport" ->
         [st EXCEPT !.transport_running = FALSE,
                    !.engine = EngineStopTransport(@),
                    !.sequencer.emit_step_on_next_process = FALSE]
    [] command.type = "kSetTempo" ->
         [st EXCEPT !.engine = EngineSetTempoBpm(@, command.value_a),
                    !.sequencer.samples_to_next_step =
                       Min(@, stepIntervalSamples(st.sequencer.current_step))]
    [] command.type = "kSetSwing" ->
         [st EXCEPT !.sequencer.samples_to_next_step =
                       Min(@, stepIntervalSamples(st.sequencer.current_step))]
    [] command.type = "kTriggerTrack" ->
         [st EXCEPT !.engine = EngineTriggerTrack(
                       @, command.track_index, Clamp(command.value_a, 0, 127))[1]]
    [] command.type = "kSetTrackParameters" ->
         [st EXCEPT !.engine = EngineSetTrackParameters(
                       @, command.track_index, command.track_parameters)[1]]
    [] command.type = "kSetTrackSample" ->
         [st EXCEPT !.engine = EngineSetTrackSample(
                       @, command.track_index, command.sample_data)[1]]
    [] command.type = "kApplyEngineParameter" ->
         [st EXCEPT !.engine = EngineApplyParameterUpdate(
                       @, command.parameter_id, command.value_a)[1]]

\* One iteration of the for loop of Runtime::applyPendingCommands.  st holds
\* the engine, the sequencer state, transport_running_, playhead_step_ and
\* the immediate events.
ApplyCommand(command, st) ==
  CASE command.type = "kStartTransport" ->
         [st EXCEPT !.transport_running = TRUE,
                    !.engine = EngineStartTransport(@),
                    !.sequencer.emit_step_on_next_process = TRUE,
                    !.sequencer.current_step = 0,
                    !.sequencer.samples_to_next_step = stepIntervalSamples(0),
                    !.playhead_step = 0]
    [] command.type = "kStopTransport" ->
         [st EXCEPT !.transport_running = FALSE,
                    !.engine = EngineStopTransport(@),
                    !.sequencer.emit_step_on_next_process = FALSE]
    [] command.type = "kSetTempo" ->
         [st EXCEPT !.engine = EngineSetTempoBpm(@, command.value_a),
                    !.sequencer.samples_to_next_step =
                       Min(@, stepIntervalSamples(st.sequencer.current_step))]
    [] command.type = "kSetSwing" ->
         [st EXCEPT !.sequencer.samples_to_next_step =
                       Min(@, stepIntervalSamples(st.sequencer.current_step))]
    [] command.type = "kTriggerTrack" ->
         [st EXCEPT !.events = Append(@,
                       [offset |-> 0, track_index |-> command.track_index,
                        velocity |-> Clamp(command.value_a, 0, 127)])]
    [] command.type = "kSetTrackParameters" ->
         [st EXCEPT !.engine = EngineSetTrackParameters(
                       @, command.track_index, command.track_parameters)[1]]
    [] command.type = "kSetTrackSample" ->
         [st EXCEPT !.engine = EngineSetTrackSample(
                       @, command.track_index, command.sample_data)[1]]
    [] command.type = "kApplyEngineParameter" ->
         [st EXCEPT !.engine = EngineApplyParameterUpdate(
                       @, command.parameter_id, command.value_a)[1]]

\* for (auto& command : commands) { ... }
RECURSIVE ApplyCommands(_, _)
ApplyCommands(commands, st) ==
  IF commands = <<>> THEN st
  ELSE ApplyCommands(Tail(commands), ApplyCommand(Head(commands), st))

(* ----------------------------------------------------------------------- *)
(* Rendering                                                               *)
(* ----------------------------------------------------------------------- *)
EventKeyLess(left, right) ==
  IF left.offset # right.offset THEN left.offset < right.offset
  ELSE left.track_index < right.track_index

\* All orders of the events with the given indices.
RECURSIVE OrdersOf(_, _)
OrdersOf(events, indices) ==
  IF indices = {} THEN {<<>>}
  ELSE UNION {{<<events[i]>> \o rest : rest \in OrdersOf(events, indices \ {i})}
                : i \in indices}

\* The results std::sort may leave for the comparator of handleAudioCallback:
\* ordered by (offset, track_index); std::sort is not a stable sort, so events
\* the comparator holds equivalent may come out in any order.
RECURSIVE SortOutcomes(_)
SortOutcomes(events) ==
  IF events = <<>> THEN {<<>>}
  ELSE
    LET idx == 1 .. Len(events)
        least == CHOOSE i \in idx : \A j \in idx : ~EventKeyLess(events[j], events[i])
        same == {i \in idx : /\ events[i].offset = events[least].offset
                             /\ events[i].track_index = events[least].track_index}
        others == SelectSeq(events,
                    LAMBDA e : \/ e.offset # events[least].offset
                               \/ e.track_index # events[least].track_index)
    IN {first \o rest : first \in OrdersOf(events, same), rest \in SortOutcomes(others)}

\* The render loop firing each event before the segment that leads up to it.
RECURSIVE RenderLoop_TriggerFirst(_, _, _, _, _)
RenderLoop_TriggerFirst(events, i, cursor, frames, st) ==
  IF i > Len(events)
  THEN IF cursor < frames
       THEN [engine |-> EngineProcess(st.engine, frames - cursor, sample_rate_hz),
             log |-> Append(st.log, [op |-> "process", frames |-> frames - cursor,
                                     track_index |-> 0, velocity |-> 0, offset |-> cursor])]
       ELSE st
  ELSE
    LET event == events[i]
        event_offset == Min(event.offset, frames)
        st1 == [engine |-> EngineTriggerTrack(st.engine, event.track_index, event.velocity)[1],
                log |-> Append(st.log,
                          [op |-> "trigger", frames |-> 0,
                           track_index |-> event.track_index,
                           velocity |-> event.velocity, offset |-> event.offset])]
        st2 == IF event_offset > cursor
               THEN [engine |-> EngineProcess(st1.engine, event_offset - cursor, sample_rate_hz),
                     log |-> Append(st1.log,
                               [op |-> "process", frames |-> event_offset - cursor,
                                track_index |-> 0, velocity |-> 0, offset |-> cursor])]
               ELSE st1
        cursor1 == IF event_offset > cursor THEN event_offset ELSE cursor
    IN RenderLoop_TriggerFirst(events, i + 1, cursor1, frames, st2)

\* The segmented render loop of Runtime::handleAudioCallback over the sorted
\* events from index i on, with `cursor` frames already rendered.  st holds
\* the engine and the log of the engine calls made.
RECURSIVE RenderLoop(_, _, _, _, _)
RenderLoop(events, i, cursor, frames, st) ==
  IF i > Len(events)
  THEN IF cursor < frames
       THEN [engine |-> EngineProcess(st.engine, frames - cursor, sample_rate_hz),
             log |-> Append(st.log, [op |-> "process", frames |-> frames - cursor,
                                     track_index |-> 0, velocity |-> 0, offset |-> cursor])]
       ELSE st
  ELSE
    LET event == events[i]
        event_offset == Min(event.offset, frames)
        st1 == IF event_offset > cursor
               THEN [engine |-> EngineProcess(st.engine, event_offset - cursor, sample_rate_hz),
                     log |-> Append(st.log,
                               [op |-> "process", frames |-> event_offset - cursor,
                                track_index |-> 0, velocity |-> 0, offset |-> cursor])]
               ELSE st
        cursor1 == IF event_offset > cursor THEN event_offset ELSE cursor
        st2 == [engine |-> EngineTriggerTrack(st1.engine, event.track_index, event.velocity)[1],
                log |-> Append(st1.log,
                          [op |-> "trigger", frames |-> 0,
                           track_index |-> event.track_index,
                           velocity |-> event.velocity, offset |-> event.offset])]
    IN RenderLoop(events, i + 1, cursor1, frames, st2)

(* ----------------------------------------------------------------------- *)
(* Inputs of the model                                                     *)
(* ----------------------------------------------------------------------- *)
FrameInputs == {2500, 6000}
TempoInputs == {128}
SwingInputs == {25}
PadInputs == {<<0, 100>>}
SampleInputs == {<<0, 4000>>}
ParameterInputs == {<<0, [DefaultTrackParameters EXCEPT !.choke_group = 1,
                                                        !.gain = Centi(300)]>>}
StepInputs == {<<0, 1, TRUE, 200>>}
LearnInputs == {<<0, "kTrackGain">>}
MidiInputs == {<<176, 7, 127>>}

(* ----------------------------------------------------------------------- *)
(* Audio thread: Runtime::handleAudioCallback in its three phases          *)
(* ----------------------------------------------------------------------- *)
\* AudioDrain with a blocking lock in place of try_lock: the drain goes ahead
\* whoever holds the mutex.
AudioDrain_Blocking(frames) ==
  /\ audio.pc = "idle"
  /\ frames > 0
  /\ LET st == ApplyCommands(pending_commands,
                 [engine |-> engine, sequencer |-> sequencer,
                  transport_running |-> transport_running,
                  playhead_step |-> playhead_step, events |-> <<>>])
     IN /\ pending_commands' = <<>>
        /\ engine' = st.engine
        /\ sequencer' = st.sequencer
        /\ transport_running' = st.transport_running
        /\ playhead_step' = st.playhead_step
        /\ processed' = processed \o pending_commands
        /\ audio' = [pc |-> "sequencer", frames |-> frames, events |-> st.events,
                     drained |-> TRUE, batch |-> pending_commands,
                     entry_timeline |-> sequencer.timeline_sample,
                     entry_step |-> sequencer.current_step,
                     entry_running |-> transport_running]
  /\ render_log' = <<>>
  /\ callbacks' = callbacks + 1
  /\ UNCHANGED <<command_mutex, steps, track_choke_groups, tempo_bpm, swing,
                 timeline_sample, project_model, midiVars, outerVars,
                 control, accepted, calls>>

\* AudioDrain with a copy in place of the swap: the drained commands stay
\* pending.
AudioDrain_Copy(frames) ==
  /\ audio.pc = "idle"
  /\ frames > 0
  /\ LET locked == command_mutex = "free"
         commands == IF locked THEN pending_commands ELSE <<>>
         st == ApplyCommands(commands,
                 [engine |-> engine, sequencer |-> sequencer,
                  transport_running |-> transport_running,
                  playhead_step |-> playhead_step, events |-> <<>>])
     IN /\ engine' = st.engine
        /\ sequencer' = st.sequencer
        /\ transport_running' = st.transport_running
        /\ playhead_step' = st.playhead_step
        /\ processed' = processed \o commands
        /\ audio' = [pc |-> "sequencer", frames |-> frames, events |-> st.events,
                     drained |-> locked, batch |-> commands,
                     entry_timeline |-> sequencer.timeline_sample,
                     entry_step |-> sequencer.current_step,
                     entry_running |-> transport_running]
  /\ render_log' = <<>>
  /\ callbacks' = callbacks + 1
  /\ UNCHANGED <<pending_commands, command_mutex, steps, track_choke_groups,
                 tempo_bpm, swing, timeline_sample, project_model, midiVars,
                 outerVars, control, accepted, calls>>

\* AudioDrain whose try_lock never succeeds.
AudioDrain_NeverLocks(frames) ==
  /\ audio.pc = "idle"
  /\ frames > 0
  /\ audio' = [pc |-> "sequencer", frames |-> frames, events |-> <<>>,
               drained |-> FALSE, batch |-> <<>>,
               entry_timeline |-> sequencer.timeline_sample,
               entry_step |-> sequencer.current_step,
               entry_running |-> transport_running]
  /\ render_log' = <<>>
  /\ callbacks' = callbacks + 1
  /\ UNCHANGED <<pending_commands, command_mutex, engine, sequencer, steps,
                 track_choke_groups, atomicVars, project_model, midiVars,
                 outerVars, control, accepted, processed, calls>>

\* Entry and applyPendingCommands: try_lock, swap the pending commands out,
\* unlock, then apply them in order; on a failed try_lock apply nothing.
AudioDrain(frames) ==
  /\ audio.pc = "idle"
  /\ frames > 0
  /\ LET locked == command_mutex = "free"
         commands == IF locked THEN pending_commands ELSE <<>>
         st == ApplyCommands(commands,
                 [engine |-> engine, sequencer |-> sequencer,
                  transport_running |-> transport_running,
                  playhead_step |-> playhead_step, events |-> <<>>])
     IN /\ pending_commands' = IF locked THEN <<>> ELSE pending_commands
        /\ engine' = st.engine
        /\ sequencer' = st.sequencer
        /\ transport_running' = st.transport_running
        /\ playhead_step' = st.playhead_step
        /\ processed' = processed \o commands
        /\ audio' = [pc |-> "sequencer", frames |-> frames, events |-> st.events,
                     drained |-> locked, batch |-> commands,
                     entry_timeline |-> sequencer.timeline_sample,
                     entry_step |-> sequencer.current_step,
                     entry_running |-> transport_running]
  /\ render_log' = <<>>
  /\ callbacks' = callbacks + 1
  /\ UNCHANGED <<command_mutex, steps, track_choke_groups, tempo_bpm, swing,
                 timeline_sample, project_model, midiVars, outerVars,
                 control, accepted, calls>>

\* processSequencer preceded by a lock_guard on project_mutex_: the step
\* waits while another thread holds it.
AudioSequencer_LocksProject ==
  /\ audio.pc = "sequencer"
  /\ project_mutex = "free"
  /\ LET st == processSequencer(audio.frames,
                 [sequencer |-> sequencer, playhead_step |-> playhead_step,
                  events |-> audio.events])
     IN /\ sequencer' = st.sequencer
        /\ playhead_step' = st.playhead_step
        /\ timeline_sample' = st.sequencer.timeline_sample
        /\ audio' = [audio EXCEPT !.pc = "render", !.events = st.events]
  /\ UNCHANGED <<pending_commands, command_mutex, engine, steps,
                 track_choke_groups, transport_running, tempo_bpm, swing,
                 project_model, midiVars, outerVars, control, render_log,
                 accepted, processed, calls, callbacks>>

\* processSequencer(frames, sequencer_, &events)
AudioSequencer ==
  /\ audio.pc = "sequencer"
  /\ LET st == processSequencer(audio.frames,
                 [sequencer |-> sequencer, playhead_step |-> playhead_step,
                  events |-> audio.events])
     IN /\ sequencer' = st.sequencer
        /\ playhead_step' = st.playhead_step
        /\ timeline_sample' = st.sequencer.timeline_sample
        /\ audio' = [audio EXCEPT !.pc = "render", !.events = st.events]
  /\ UNCHANGED <<pending_commands, command_mutex, engine, steps,
                 track_choke_groups, transport_running, tempo_bpm, swing,
                 project_model, midiVars, outerVars, control, render_log,
                 accepted, processed, calls, callbacks>>

\* std::sort of the events, the segmented render, the copy to the output.
AudioRender ==
  /\ audio.pc = "render"
  /\ \E sorted \in SortOutcomes(audio.events) :
       LET st == RenderLoop(sorted, 1, 0, audio.frames,
                            [engine |-> engine, log |-> <<>>])
           blocks == Cardinality({i \in 1 .. Len(st.log) : st.log[i].op = "process"})
       IN /\ \E overruns \in (IF engine.profiling_enabled THEN 0 .. blocks ELSE {0}) :
               engine' = recordProcessTiming(st.engine, blocks, overruns)
          /\ render_log' = st.log
          /\ audio' = [audio EXCEPT !.pc = "idle", !.events = sorted]
  /\ UNCHANGED <<pending_commands, command_mutex, sequencer, steps,
                 track_choke_groups, atomicVars, project_model, midiVars,
                 outerVars, control, accepted, processed, calls, callbacks>>

(* ----------------------------------------------------------------------- *)
(* Control side: the public setters, enqueueCommand and the fallbacks      *)
(* ----------------------------------------------------------------------- *)
\* The caller enters enqueueCommand(command) and takes command_mutex_.
BeginEnqueue(op, command, arg) ==
  /\ command_mutex' = "control"
  /\ control' = [pc |-> "locked", op |-> op, command |-> command, arg |-> arg,
                 result |-> "none"]

\* A call that returns before reaching enqueueCommand.
ReturnEarly(op) ==
  /\ control' = [ControlIdle EXCEPT !.op = op, !.result = "invalid"]
  /\ UNCHANGED command_mutex

\* The setters that do nothing of their own when enqueueCommand fails.
NoFallback(op) == op \in {"setSwing", "handleMidiMessage"}

\* enqueueCommand with the size test off by one (> in place of >=).
EnqueueCommand_OffByOne ==
  /\ control.pc = "locked"
  /\ command_mutex' = "free"
  /\ IF Len(pending_commands) > QueueCapacity
     THEN /\ control' = [control EXCEPT
                           !.pc = IF NoFallback(control.op) THEN "idle" ELSE "fallback",
                           !.result = "rejected"]
          /\ UNCHANGED <<pending_commands, accepted>>
     ELSE /\ pending_commands' = Append(pending_commands, control.command)
          /\ accepted' = Append(accepted, control.command)
          /\ control' = [control EXCEPT !.pc = "idle", !.result = "accepted"]
  /\ UNCHANGED <<engine, steps, track_choke_groups, atomicVars, project_model,
                 midiVars, outerVars, audioVars, calls>>

\* Runtime::enqueueCommand under the lock: refuse at the size limit, else
\* push_back; the lock_guard releases on return.
EnqueueCommand ==
  /\ control.pc = "locked"
  /\ command_mutex' = "free"
  /\ IF Len(pending_commands) >= QueueCapacity
     THEN /\ control' = [control EXCEPT
                           !.pc = IF NoFallback(control.op) THEN "idle" ELSE "fallback",
                           !.result = "rejected"]
          /\ UNCHANGED <<pending_commands, accepted>>
     ELSE /\ pending_commands' = Append(pending_commands, control.command)
          /\ accepted' = Append(accepted, control.command)
          /\ control' = [control EXCEPT !.pc = "idle", !.result = "accepted"]
  /\ UNCHANGED <<engine, steps, track_choke_groups, atomicVars, project_model,
                 midiVars, outerVars, audioVars, calls>>

\* The statement each setter runs when enqueueCommand returned false.
Fallback ==
  /\ control.pc = "fallback"
  /\ control' = [control EXCEPT !.pc = "idle"]
  /\ CASE control.op = "setTransportRunning" ->
            /\ transport_running' = control.arg
            /\ UNCHANGED engine
       [] control.op = "setTempoBpm" ->
            /\ engine' = EngineSetTempoBpm(engine, control.command.value_a)
            /\ UNCHANGED transport_running
       [] control.op = "triggerPad" ->
            /\ engine' = EngineTriggerTrack(engine, control.command.track_index,
                                            control.command.value_a)[1]
            /\ UNCHANGED transport_running
       [] control.op = "setTrackParameters" ->
            /\ engine' = EngineSetTrackParameters(engine, control.command.track_index,
                                                  control.command.track_parameters)[1]
            /\ UNCHANGED transport_running
       [] control.op = "setTrackSampleFromLoaded" ->
            /\ engine' = EngineSetTrackSample(engine, control.command.track_index,
                                              control.command.sample_data)[1]
            /\ UNCHANGED transport_running
  /\ UNCHANGED <<pending_commands, command_mutex, sequencer, steps,
                 track_choke_groups, tempo_bpm, swing, playhead_step,
                 timeline_sample, project_model, midiVars, outerVars,
                 audio, render_log, accepted, processed, calls, callbacks>>

\* Runtime::setTransportRunning
SetTransportRunning(running) ==
  /\ control.pc = "idle"
  /\ calls' = calls + 1
  /\ BeginEnqueue("setTransportRunning",
       Command(IF running THEN "kStartTransport" ELSE "kStopTransport"), running)
  /\ UNCHANGED <<pending_commands, engine, steps, track_choke_groups, atomicVars,
                 project_model, midiVars, outerVars, audioVars, accepted>>

\* Runtime::toggleTransport
ToggleTransport == SetTransportRunning(~transport_running)

\* Runtime::setTempoBpm
SetTempoBpm(bpm) ==
  /\ control.pc = "idle"
  /\ calls' = calls + 1
  /\ LET clamped == Clamp(bpm, 20, 300)
     IN /\ tempo_bpm' = clamped
        /\ project_model' = [project_model EXCEPT !.bpm = clamped]
        /\ BeginEnqueue("setTempoBpm",
             [Command("kSetTempo") EXCEPT !.value_a = clamped], clamped)
  /\ UNCHANGED <<pending_commands, engine, steps, track_choke_groups,
                 transport_running, swing, playhead_step, timeline_sample,
                 midiVars, outerVars, audioVars, accepted>>

\* Runtime::setSwing
SetSwing(amount) ==
  /\ control.pc = "idle"
  /\ calls' = calls + 1
  /\ LET clamped == Clamp(amount, 0, 45)
     IN /\ swing' = clamped
        /\ project_model' = [project_model EXCEPT !.swing = clamped]
        /\ BeginEnqueue("setSwing",
             [Command("kSetSwing") EXCEPT !.value_a = clamped], clamped)
  /\ UNCHANGED <<pending_commands, engine, steps, track_choke_groups,
                 transport_running, tempo_bpm, playhead_step, timeline_sample,
                 midiVars, outerVars, audioVars, accepted>>

\* Runtime::setStep
SetStep(track_index, step_index, active, velocity) ==
  /\ control.pc = "idle"
  /\ calls' = calls + 1
  /\ IF track_index >= kTrackCount \/ step_index >= kSteps
     THEN /\ ReturnEarly("setStep")
          /\ UNCHANGED <<steps, project_model>>
     ELSE LET stored == IF active THEN Clamp(velocity, 1, 127) ELSE 0
          IN /\ steps' = [steps EXCEPT ![track_index][step_index] = stored]
             /\ project_model' =
                  [project_model EXCEPT
                     !.pattern[track_index][step_index] =
                        [active |-> active,
                         velocity |-> IF stored = 0 THEN 100 ELSE stored]]
             /\ control' = [ControlIdle EXCEPT !.op = "setStep", !.result = "done"]
             /\ UNCHANGED command_mutex
  /\ UNCHANGED <<pending_commands, engine, track_choke_groups, atomicVars,
                 midiVars, outerVars, audioVars, accepted>>

\* Runtime::triggerPad as a relation on control and command_mutex.
TriggerPadCall(track_index, velocity) ==
  IF track_index >= kTrackCount \/ velocity = 0
  THEN ReturnEarly("triggerPad")
  ELSE BeginEnqueue("triggerPad",
         [Command("kTriggerTrack") EXCEPT !.track_index = track_index,
                                          !.value_a = clampVelocityToUnit(velocity)],
         velocity)

\* Runtime::triggerPad
TriggerPad(track_index, velocity) ==
  /\ control.pc = "idle"
  /\ calls' = calls + 1
  /\ TriggerPadCall(track_index, velocity)
  /\ UNCHANGED <<pending_commands, engine, steps, track_choke_groups, atomicVars,
                 project_model, midiVars, outerVars, audioVars, accepted>>

\* Runtime::setTrackParameters
SetTrackParameters(track_index, parameters) ==
  /\ control.pc = "idle"
  /\ calls' = calls + 1
  /\ IF track_index >= kTrackCount
     THEN /\ ReturnEarly("setTrackParameters")
          /\ UNCHANGED <<track_choke_groups, project_model>>
     ELSE /\ track_choke_groups' =
               [track_choke_groups EXCEPT ![track_index] = parameters.choke_group]
          /\ project_model' =
               [project_model EXCEPT !.tracks[track_index].parameters = parameters]
          /\ BeginEnqueue("setTrackParameters",
               SetTrackParametersCommand(track_index, parameters), 0)
  /\ UNCHANGED <<pending_commands, engine, steps, atomicVars, midiVars,
                 outerVars, audioVars, accepted>>

\* Runtime::setTrackSampleFromLoaded; the path is named after the track.
SetTrackSampleFromLoaded(track_index, sample) ==
  /\ control.pc = "idle"
  /\ calls' = calls + 1
  /\ IF track_index >= kTrackCount \/ sample = 0
     THEN /\ ReturnEarly("setTrackSampleFromLoaded")
          /\ UNCHANGED project_model
     ELSE /\ project_model' =
               [project_model EXCEPT !.tracks[track_index].sample_path = "sample.wav"]
          /\ BeginEnqueue("setTrackSampleFromLoaded",
               [Command("kSetTrackSample") EXCEPT !.track_index = track_index,
                                                  !.sample_data = sample], 0)
  /\ UNCHANGED <<pending_commands, engine, steps, track_choke_groups, atomicVars,
                 midiVars, outerVars, audioVars, accepted>>

\* beginMidiLearn that leaves a target armed earlier in place.
BeginMidiLearn_KeepsArmed(track_index, slot) ==
  /\ control.pc = "idle"
  /\ calls' = calls + 1
  /\ IF track_index >= kTrackCount
     THEN /\ ReturnEarly("beginMidiLearn")
          /\ UNCHANGED midiVars
     ELSE /\ active_learn' = IF active_learn # <<>> THEN active_learn
                             ELSE << [track_index |-> track_index, slot |-> slot] >>
          /\ last_learned_binding' = <<>>
          /\ control' = [ControlIdle EXCEPT !.op = "beginMidiLearn", !.result = "done"]
          /\ UNCHANGED <<cc_bindings, command_mutex>>
  /\ UNCHANGED <<pending_commands, engine, steps, track_choke_groups, atomicVars,
                 project_model, outerVars, audioVars, accepted>>

\* Runtime::beginMidiLearn
BeginMidiLearn(track_index, slot) ==
  /\ control.pc = "idle"
  /\ calls' = calls + 1
  /\ IF track_index >= kTrackCount
     THEN /\ ReturnEarly("beginMidiLearn")
          /\ UNCHANGED midiVars
     ELSE /\ active_learn' = << [track_index |-> track_index, slot |-> slot] >>
          /\ last_learned_binding' = <<>>
          /\ control' = [ControlIdle EXCEPT !.op = "beginMidiLearn", !.result = "done"]
          /\ UNCHANGED <<cc_bindings, command_mutex>>
  /\ UNCHANGED <<pending_commands, engine, steps, track_choke_groups, atomicVars,
                 project_model, outerVars, audioVars, accepted>>

\* Runtime::cancelMidiLearn
CancelMidiLearn ==
  /\ control.pc = "idle"
  /\ calls' = calls + 1
  /\ active_learn' = <<>>
  /\ control' = [ControlIdle EXCEPT !.op = "cancelMidiLearn", !.result = "done"]
  /\ UNCHANGED <<cc_bindings, last_learned_binding, command_mutex>>
  /\ UNCHANGED <<pending_commands, engine, steps, track_choke_groups, atomicVars,
                 project_model, outerVars, audioVars, accepted>>

\* Runtime::parameterIdForLearnTarget
parameterIdForLearnTarget(target) ==
  IF target.track_index >= kTrackCount THEN <<>>
  ELSE
    LET slot == CASE target.slot = "kTrackGain" -> FF_PARAM_SLOT_GAIN
                  [] target.slot = "kTrackFilterCutoff" -> FF_PARAM_SLOT_FILTER_CUTOFF
                  [] target.slot = "kTrackEnvelopeDecay" -> FF_PARAM_SLOT_ENVELOPE_DECAY
                  [] OTHER -> FF_PARAM_SLOT_GAIN
    IN << FF_PARAM_TRACK_BASE + target.track_index * FF_PARAM_TRACK_STRIDE + slot >>

BitAnd127(byte) == byte % 128
StatusNibble(byte) == (byte \div 16) * 16

\* handleMidiMessage taking a note-off (status nibble 0x8) for a note-on.
HandleMidiMessage_NoteOffTriggers(bytes) ==
  /\ control.pc = "idle"
  /\ calls' = calls + 1
  /\ LET status == StatusNibble(bytes[1])
         data1 == BitAnd127(bytes[2])
         data2 == BitAnd127(bytes[3])
         base_note == engine.pad_base_note
         learned_parameter_id ==
           IF active_learn # <<>> THEN parameterIdForLearnTarget(active_learn[1])
           ELSE cc_bindings[data1]
     IN IF Len(bytes) < 3 THEN ReturnEarly("handleMidiMessage") /\ UNCHANGED midiVars
        ELSE IF status \in {128, 144} /\ data2 > 0
        THEN /\ IF data1 >= base_note /\ data1 - base_note < kTrackCount
                THEN TriggerPadCall(data1 - base_note, data2)
                ELSE ReturnEarly("handleMidiMessage")
             /\ UNCHANGED midiVars
        ELSE IF status # 176
        THEN ReturnEarly("handleMidiMessage") /\ UNCHANGED midiVars
        ELSE
          /\ IF active_learn # <<>>
             THEN /\ active_learn' = <<>>
                  /\ IF learned_parameter_id # <<>>
                     THEN /\ cc_bindings' = [cc_bindings EXCEPT ![data1] = learned_parameter_id]
                          /\ last_learned_binding' =
                               << [track_index |-> active_learn[1].track_index,
                                   cc |-> data1, slot |-> active_learn[1].slot] >>
                     ELSE UNCHANGED <<cc_bindings, last_learned_binding>>
             ELSE UNCHANGED midiVars
          /\ IF learned_parameter_id = <<>>
             THEN ReturnEarly("handleMidiMessage")
             ELSE BeginEnqueue("handleMidiMessage",
                    [Command("kApplyEngineParameter") EXCEPT
                       !.parameter_id = learned_parameter_id[1],
                       !.value_a = data2], data2)
  /\ UNCHANGED <<pending_commands, engine, steps, track_choke_groups, atomicVars,
                 project_model, outerVars, audioVars, accepted>>

\* Runtime::handleMidiMessage on a message of three bytes
HandleMidiMessage(bytes) ==
  /\ control.pc = "idle"
  /\ calls' = calls + 1
  /\ LET status == StatusNibble(bytes[1])
         data1 == BitAnd127(bytes[2])
         data2 == BitAnd127(bytes[3])
         base_note == engine.pad_base_note
         learned_parameter_id ==
           IF active_learn # <<>> THEN parameterIdForLearnTarget(active_learn[1])
           ELSE cc_bindings[data1]
     IN IF Len(bytes) < 3 THEN ReturnEarly("handleMidiMessage") /\ UNCHANGED midiVars
        ELSE IF status = 144 /\ data2 > 0
        THEN /\ IF data1 >= base_note /\ data1 - base_note < kTrackCount
                THEN TriggerPadCall(data1 - base_note, data2)
                ELSE ReturnEarly("handleMidiMessage")
             /\ UNCHANGED midiVars
        ELSE IF status # 176
        THEN ReturnEarly("handleMidiMessage") /\ UNCHANGED midiVars
        ELSE
          /\ IF active_learn # <<>>
             THEN /\ active_learn' = <<>>
                  /\ IF learned_parameter_id # <<>>
                     THEN /\ cc_bindings' = [cc_bindings EXCEPT ![data1] = learned_parameter_id]
                          /\ last_learned_binding' =
                               << [track_index |-> active_learn[1].track_index,
                                   cc |-> data1, slot |-> active_learn[1].slot] >>
                     ELSE UNCHANGED <<cc_bindings, last_learned_binding>>
             ELSE UNCHANGED midiVars
          /\ IF learned_parameter_id = <<>>
             THEN ReturnEarly("handleMidiMessage")
             ELSE BeginEnqueue("handleMidiMessage",
                    [Command("kApplyEngineParameter") EXCEPT
                       !.parameter_id = learned_parameter_id[1],
                       !.value_a = data2], data2)
  /\ UNCHANGED <<pending_commands, engine, steps, track_choke_groups, atomicVars,
                 project_model, outerVars, audioVars, accepted>>

(* ----------------------------------------------------------------------- *)
(* Specifications                                                          *)
(* ----------------------------------------------------------------------- *)
\* The calls that change transport and tempo and play pads.
SequencerCall ==
  \/ \E running \in BOOLEAN : SetTransportRunning(running)
  \/ \E bpm \in TempoInputs : SetTempoBpm(bpm)
  \/ \E in \in PadInputs : TriggerPad(in[1], in[2])

\* The calls that set the swing, edit the pattern, the track parameters and
\* the samples, and MIDI input.
EditCall ==
  \/ \E in \in SampleInputs : SetTrackSampleFromLoaded(in[1], in[2])
  \/ \E amount \in SwingInputs : SetSwing(amount)
  \/ \E in \in StepInputs : SetStep(in[1], in[2], in[3], in[4])
  \/ \E in \in ParameterInputs : SetTrackParameters(in[1], in[2])
  \/ \E in \in LearnInputs : BeginMidiLearn(in[1], in[2])
  \/ \E bytes \in MidiInputs : HandleMidiMessage(bytes)

AudioCallback ==
  \/ callbacks < MaxCallbacks /\ \E frames \in FrameInputs : AudioDrain(frames)
  \/ AudioSequencer
  \/ AudioRender

\* The whole runtime: every control-side call against the audio callback.
Next ==
  \/ calls < MaxCalls /\ (SequencerCall \/ EditCall)
  \/ EnqueueCommand
  \/ Fallback
  \/ AudioCallback

Spec == Init /\ [][Next]_vars

\* The transport and sequencer calls against the audio callback.
NextSequencer ==
  \/ calls < MaxCalls /\ SequencerCall
  \/ EnqueueCommand
  \/ Fallback
  \/ AudioCallback

SpecSequencer == Init /\ [][NextSequencer]_vars

\* The block size of the fair specification.
LiveFrameInputs == {6000}

\* The calls of the fair specification: starting the transport and a pad.
LiveCall ==
  \/ SetTransportRunning(TRUE)
  \/ \E in \in PadInputs : TriggerPad(in[1], in[2])

\* Audio callbacks that keep occurring: beyond MaxCallbacks the device calls
\* back whenever commands are pending and command_mutex_ is free.
AudioCallbackLive ==
  \/ /\ \/ callbacks < MaxCallbacks
        \/ pending_commands # <<>> /\ command_mutex = "free"
     /\ \E frames \in LiveFrameInputs : AudioDrain(frames)
  \/ AudioSequencer
  \/ AudioRender

NextLive ==
  \/ calls < MaxCalls /\ LiveCall
  \/ EnqueueCommand
  \/ Fallback
  \/ AudioCallbackLive

\* The runtime with a control thread that leaves enqueueCommand and finishes
\* its call, and an audio device that keeps calling back.
SpecLive ==
  /\ Init
  /\ [][NextLive]_vars
  /\ WF_vars(EnqueueCommand)
  /\ WF_vars(Fallback)
  /\ WF_vars(AudioCallbackLive)

\* MIDI: learn requests for two targets and for a track past the last one,
\* control changes on two CC numbers, and note messages on a pad, with
\* velocity 0, below and above the pads, cut short, and of another status.
MidiLearnInputs ==
  {<<0, "kTrackGain">>, <<1, "kTrackFilterCutoff">>, <<kTrackCount, "kTrackGain">>}
MidiMessageInputs ==
  {<<176, 7, 127>>, <<177, 8, 64>>,
   <<145, kDefaultPadBaseNote + 1, 100>>,
   <<144, kDefaultPadBaseNote, 0>>,
   <<144, kDefaultPadBaseNote - 1, 100>>,
   <<144, kDefaultPadBaseNote + kTrackCount, 100>>,
   <<144, kDefaultPadBaseNote>>,
   <<128, kDefaultPadBaseNote, 100>>}

MidiCall ==
  \/ \E in \in MidiLearnInputs : BeginMidiLearn(in[1], in[2])
  \/ CancelMidiLearn
  \/ \E bytes \in MidiMessageInputs : HandleMidiMessage(bytes)

NextMidi ==
  \/ calls < MaxMidiCalls /\ MidiCall
  \/ EnqueueCommand
  \/ Fallback

\* The runtime under MIDI input and learn requests.
SpecMidi == Init /\ [][NextMidi]_vars

(* ----------------------------------------------------------------------- *)
(* The engine called directly (packages/engine-cpp, as its tests call it)  *)
(* ----------------------------------------------------------------------- *)
\* The bool an Engine method returned, as control.result holds it.
BoolResult(b) == IF b THEN "true" ELSE "false"

\* One call of an Engine method by the thread that owns the engine, outside
\* any Runtime call and any audio callback: the call and what it returned are
\* recorded in control, the engine becomes what the method leaves.
EngineCall(op, command, arg, result, next_engine) ==
  /\ control.pc = "idle"
  /\ audio.pc = "idle"
  /\ control' = [pc |-> "idle", op |-> op, command |-> command, arg |-> arg,
                 result |-> result]
  /\ engine' = next_engine
  /\ UNCHANGED <<pending_commands, command_mutex, steps, track_choke_groups,
                 atomicVars, project_model, midiVars, outerVars,
                 audioVars, accepted, calls>>

\* engine.setTrackSample(track_index, sample)
CallSetTrackSample(track_index, sample) ==
  LET r == EngineSetTrackSample(engine, track_index, sample)
  IN EngineCall("Engine::setTrackSample",
       [Command("kSetTrackSample") EXCEPT !.track_index = track_index,
                                          !.sample_data = sample],
       0, BoolResult(r[2]), r[1])

\* engine.setTrackParameters(track_index, parameters)
CallSetTrackParameters(track_index, parameters) ==
  LET r == EngineSetTrackParameters(engine, track_index, parameters)
  IN EngineCall("Engine::setTrackParameters",
       SetTrackParametersCommand(track_index, parameters),
       0, BoolResult(r[2]), r[1])

\* engine.triggerTrack(track_index, velocity), the velocity in 127ths
CallTriggerTrack(track_index, velocity) ==
  LET r == EngineTriggerTrack(engine, track_index, velocity)
  IN EngineCall("Engine::triggerTrack",
       [Command("kTriggerTrack") EXCEPT !.track_index = track_index,
                                        !.value_a = velocity],
       0, BoolResult(r[2]), r[1])

\* engine.handleMidiNoteOn(note, velocity); control.arg holds the note.
CallHandleMidiNoteOn(note, velocity) ==
  LET r == EngineHandleMidiNoteOn(engine, note, velocity)
  IN EngineCall("Engine::handleMidiNoteOn",
       [Command("kTriggerTrack") EXCEPT !.value_a = velocity],
       note, BoolResult(r[2]), r[1])

\* engine.applyParameterUpdate(parameter_id, normalized_value)
CallApplyParameterUpdate(parameter_id, normalized_value) ==
  LET r == EngineApplyParameterUpdate(engine, parameter_id, normalized_value)
  IN EngineCall("Engine::applyParameterUpdate",
       [Command("kApplyEngineParameter") EXCEPT !.parameter_id = parameter_id,
                                                !.value_a = normalized_value],
       0, BoolResult(r[2]), r[1])

\* engine.process(buffer, frames); control.arg holds the frames.  Profiling
\* is enabled by Runtime::start only, so a direct call records no timing.
CallProcess(frames) ==
  EngineCall("Engine::process", ControlIdle.command, frames, "none",
             EngineProcess(engine, frames, sample_rate_hz))

\* Voices: two pads that can share a choke group, short samples, and an
\* index past the last track.
VoiceSampleInputs == {<<0, 2>>, <<0, 3>>, <<1, 2>>, <<0, 0>>, <<kTrackCount, 2>>}
VoiceParameterInputs ==
  {<<0, [DefaultTrackParameters EXCEPT !.choke_group = 1]>>,
   <<1, [DefaultTrackParameters EXCEPT !.choke_group = 1]>>,
   <<1, [DefaultTrackParameters EXCEPT !.choke_group = 2]>>}
VoiceTriggerInputs ==
  {<<0, 127>>, <<1, 127>>, <<0, 0>>, <<1, 0>>, <<0, -5>>, <<kTrackCount, 127>>}
NoteInputs ==
  {<<kDefaultPadBaseNote, 127>>, <<kDefaultPadBaseNote + 1, 127>>,
   <<kDefaultPadBaseNote, 0>>, <<kDefaultPadBaseNote - 1, 127>>,
   <<kDefaultPadBaseNote + kTrackCount, 127>>}
VoiceFrameInputs == {1, 2}

NextVoices ==
  \/ \E in \in VoiceSampleInputs : CallSetTrackSample(in[1], in[2])
  \/ \E in \in VoiceParameterInputs : CallSetTrackParameters(in[1], in[2])
  \/ \E in \in VoiceTriggerInputs : CallTriggerTrack(in[1], in[2])
  \/ \E in \in NoteInputs : CallHandleMidiNoteOn(in[1], in[2])
  \/ \E frames \in VoiceFrameInputs : CallProcess(frames)

\* The engine's voices under direct calls.
SpecVoices == Init /\ [][NextVoices]_vars

\* Parameters: one track written whole with values beyond both ends of every
\* range, and normalized updates to each slot of track 0, to the gain of the
\* last track and to ids that decode to no parameter.
OutOfRangeHigh ==
  [gain |-> Centi(300), pan |-> Centi(200), filter_cutoff |-> Centi(150),
   envelope_decay |-> Centi(150), pitch_semitones |-> Centi(3000),
   choke_group |-> 20]
OutOfRangeLow ==
  [gain |-> Centi(-100), pan |-> Centi(-200), filter_cutoff |-> Centi(-50),
   envelope_decay |-> Centi(-50), pitch_semitones |-> Centi(-3000),
   choke_group |-> -5]
ParameterSetInputs ==
  {<<0, OutOfRangeHigh>>, <<0, OutOfRangeLow>>, <<kTrackCount, OutOfRangeHigh>>}
ParameterSlots ==
  {FF_PARAM_SLOT_GAIN, FF_PARAM_SLOT_PAN, FF_PARAM_SLOT_FILTER_CUTOFF,
   FF_PARAM_SLOT_ENVELOPE_DECAY, FF_PARAM_SLOT_PITCH, FF_PARAM_SLOT_CHOKE_GROUP}
ParameterIdInputs ==
  {FF_PARAM_TRACK_BASE + slot : slot \in ParameterSlots}
    \cup {FF_PARAM_TRACK_BASE + (kTrackCount - 1) * FF_PARAM_TRACK_STRIDE
            + FF_PARAM_SLOT_GAIN}
    \cup {FF_PARAM_TRACK_BASE - 1,
          FF_PARAM_TRACK_BASE,
          FF_PARAM_TRACK_BASE + FF_PARAM_TRACK_STRIDE - 1,
          FF_PARAM_TRACK_BASE + kTrackCount * FF_PARAM_TRACK_STRIDE
            + FF_PARAM_SLOT_GAIN}
NormalizedInputs == {-5, 200}
ParameterUpdateInputs ==
  (ParameterIdInputs \X NormalizedInputs)
    \cup {<<FF_PARAM_TRACK_BASE + FF_PARAM_SLOT_GAIN, 32>>}

NextParameters ==
  \/ \E in \in ParameterSetInputs : CallSetTrackParameters(in[1], in[2])
  \/ \E in \in ParameterUpdateInputs : CallApplyParameterUpdate(in[1], in[2])

\* The engine's track parameters under direct calls.
SpecParameters == Init /\ [][NextParameters]_vars

\* The choke-group slot of track 0 swept over the normalized values a MIDI
\* data byte gives (0/127 .. 127/127) and two values outside [0,1].
ChokeSweepInputs == (0 .. 127) \cup {-3, 130}

NextNormalized ==
  \E normalized \in ChokeSweepInputs :
     CallApplyParameterUpdate(FF_PARAM_TRACK_BASE + FF_PARAM_SLOT_CHOKE_GROUP,
                              normalized)

\* The engine under normalized updates of one choke-group slot.
SpecNormalized == Init /\ [][NextNormalized]_vars

\* Envelope: one pad at pitch 0 with a short and a long sample, the shortest
\* and the longest decay, and blocks that end inside and beyond both.  The
\* envelope is held as the frames since the trigger at one decay, so the decay
\* is set between notes.
EnvelopeSampleInputs == {<<0, 3>>, <<0, 10000>>}
EnvelopeDecayInputs ==
  {<<0, [DefaultTrackParameters EXCEPT !.envelope_decay = 0]>>,
   <<0, DefaultTrackParameters>>}
EnvelopeTriggerInputs == {<<0, 127>>}
EnvelopeFrameInputs == {2, 4000, 10000}

NextEnvelope ==
  \/ \E in \in EnvelopeSampleInputs : CallSetTrackSample(in[1], in[2])
  \/ \E in \in EnvelopeDecayInputs :
        ~engine.tracks[in[1]].active /\ CallSetTrackParameters(in[1], in[2])
  \/ \E in \in EnvelopeTriggerInputs : CallTriggerTrack(in[1], in[2])
  \/ \E frames \in EnvelopeFrameInputs : CallProcess(frames)

\* The engine rendering one voice to its end.
SpecEnvelope == Init /\ [][NextEnvelope]_vars

(* ----------------------------------------------------------------------- *)
(* Properties                                                              *)
(* ----------------------------------------------------------------------- *)
\* Frames the log's process() calls rendered.
RECURSIVE RenderedFrames(_)
RenderedFrames(log) ==
  IF log = <<>> THEN 0
  ELSE (IF Head(log).op = "process" THEN Head(log).frames ELSE 0)
       + RenderedFrames(Tail(log))

\* The step on which enqueueCommand returns.
EnqueueReturns == control.pc = "locked" /\ control'.pc # "locked"
\* The step on which a callback enters and tries the lock.
DrainStep == audio.pc = "idle" /\ audio'.pc = "sequencer"
\* The step on which a callback runs the sequencer.
SequencerStep == audio.pc = "sequencer" /\ audio'.pc = "render"
\* The step on which a callback sorts, renders and returns.
RenderStep == audio.pc = "render" /\ audio'.pc = "idle"

\* C1: enqueueCommand accepts a command iff fewer than the capacity are
\* pending (scaled: QueueCapacity stands for the code's 4096); an accepted
\* command is appended, a refused one leaves the queue unchanged; the queue
\* only shrinks by a drain of the audio callback, which empties it; and the
\* number of pending commands never exceeds the capacity.
C1_QueueBound ==
  /\ [](Len(pending_commands) <= QueueCapacity)
  /\ [][EnqueueReturns =>
          IF Len(pending_commands) < QueueCapacity
          THEN /\ control'.result = "accepted"
               /\ pending_commands' = Append(pending_commands, control.command)
          ELSE /\ control'.result = "rejected"
               /\ pending_commands' = pending_commands]_vars
  /\ [][pending_commands' # pending_commands =>
          \/ EnqueueReturns
          \/ DrainStep /\ audio'.drained /\ pending_commands' = <<>>]_vars

\* A full queue has refused a command.
C1_Witness ==
  /\ control.pc # "locked"
  /\ control.result = "rejected"
  /\ Len(pending_commands) = QueueCapacity

\* C2: a callback that finds command_mutex_ held does not wait: it can always
\* enter, applies no command, leaves the pending commands, the engine and the
\* sequencer as they are, and still runs the sequencer over the block and
\* renders all of its frames.
C2_TryLockSkipsDrain ==
  /\ [](audio.pc = "idle" /\ command_mutex = "control" =>
          \A frames \in FrameInputs : ENABLED AudioDrain(frames))
  /\ [][DrainStep /\ command_mutex = "control" =>
          /\ ~audio'.drained
          /\ audio'.events = <<>>
          /\ pending_commands' = pending_commands
          /\ processed' = processed
          /\ engine' = engine
          /\ sequencer' = sequencer
          /\ transport_running' = transport_running]_vars
  /\ [](audio.pc = "idle" /\ callbacks > 0 /\ ~audio.drained =>
          /\ sequencer.timeline_sample = audio.entry_timeline + audio.frames
          /\ RenderedFrames(render_log) = audio.frames)

\* A callback that was locked out with commands pending has advanced a step
\* and rendered its block; the commands are still pending.
C2_Witness ==
  /\ audio.pc = "idle"
  /\ callbacks > 0
  /\ ~audio.drained
  /\ pending_commands # <<>>
  /\ sequencer.current_step # audio.entry_step
  /\ RenderedFrames(render_log) = audio.frames

\* C3: the accepted commands are exactly the processed ones followed by the
\* pending ones, in order: none is dropped, processed twice or reordered.
C3_ExactlyOnceInOrder == accepted = processed \o pending_commands

\* Two callbacks have drained commands and a later one is still pending.
C3_Witness ==
  /\ callbacks = 2
  /\ audio.drained
  /\ Len(processed) >= 3
  /\ pending_commands # <<>>

\* The samples processSequencer counts down to the next step: the interval it
\* recomputes when the emit flag is armed, else the stored remainder.
RemainingToNextStep ==
  IF sequencer.emit_step_on_next_process
  THEN stepIntervalSamples(sequencer.current_step)
  ELSE sequencer.samples_to_next_step

\* The events processSequencer emits for the armed step, if any.
ArmedEvents ==
  IF sequencer.emit_step_on_next_process
  THEN collectStepEvents(sequencer.current_step, 0, <<>>)
  ELSE <<>>

\* The frames rendered before the k-th engine call of the log.
RenderedBefore(log, k) == RenderedFrames(SubSeq(log, 1, k - 1))

\* The events the log's triggerTrack calls fired, in order.
FiredEvents(log) ==
  LET fired == SelectSeq(log, LAMBDA entry : entry.op = "trigger")
  IN [k \in 1 .. Len(fired) |->
        [offset |-> fired[k].offset, track_index |-> fired[k].track_index,
         velocity |-> fired[k].velocity]]

\* How often e occurs in the sequence.
Occurrences(seq, e) == Cardinality({k \in 1 .. Len(seq) : seq[k] = e})

\* C8: every callback advances timeline_sample by exactly its frames, whether
\* the transport runs or not and whether or not the drain took the lock;
\* nothing else changes it, so it never decreases or resets, not when a
\* StartTransport or a StopTransport is applied either.
C8_TimelineAdvances ==
  /\ [][SequencerStep =>
          /\ sequencer'.timeline_sample = sequencer.timeline_sample + audio.frames
          /\ timeline_sample' = sequencer'.timeline_sample]_vars
  /\ [][~SequencerStep =>
          /\ sequencer'.timeline_sample = sequencer.timeline_sample
          /\ timeline_sample' = timeline_sample]_vars
  /\ [](audio.pc = "idle" /\ callbacks > 0 =>
          /\ audio.frames > 0
          /\ sequencer.timeline_sample = audio.entry_timeline + audio.frames)

\* Two callbacks of different sizes have run across a start and a stop of the
\* transport; the second ran with the transport stopped.
C8_Witness ==
  /\ audio.pc = "idle"
  /\ callbacks = 2
  /\ timeline_sample = 8500
  /\ ~transport_running
  /\ \E i \in 1 .. Len(processed) : processed[i].type = "kStartTransport"
  /\ \E i \in 1 .. Len(processed) : processed[i].type = "kStopTransport"

\* C10: each trigger event with offset o is fired after exactly
\* min(o, frames) frames of the block have been rendered; the process()
\* segments are non-empty, each starts where the frames rendered so far end,
\* and they sum to the block's frames; and the events fired in a callback are
\* exactly the events collected in it, each once.
C10_SegmentedRender ==
  /\ [](audio.pc = "idle" /\ callbacks > 0 =>
          /\ RenderedFrames(render_log) = audio.frames
          /\ \A k \in 1 .. Len(render_log) :
               IF render_log[k].op = "process"
               THEN /\ render_log[k].frames > 0
                    /\ render_log[k].offset = RenderedBefore(render_log, k)
               ELSE RenderedBefore(render_log, k)
                      = Min(render_log[k].offset, audio.frames)
          /\ FiredEvents(render_log) = audio.events)
  /\ [][RenderStep =>
          /\ Len(audio'.events) = Len(audio.events)
          /\ \A k \in 1 .. Len(audio.events) :
               Occurrences(audio'.events, audio.events[k])
                 = Occurrences(audio.events, audio.events[k])]_vars

\* A callback fired events at the start of its block and in the middle of it,
\* and rendered the rest of the block after them.
C10_Witness ==
  /\ audio.pc = "idle"
  /\ \E k \in 1 .. Len(render_log) :
       /\ render_log[k].op = "trigger"
       /\ render_log[k].offset = 0
  /\ \E k \in 1 .. Len(render_log) :
       /\ render_log[k].op = "trigger"
       /\ render_log[k].offset > 0
       /\ render_log[k].offset < audio.frames
  /\ render_log[Len(render_log)].op = "process"

\* The type of the last transport command among the commands, "none" if
\* there is none.
LastTransport(commands) ==
  LET transport == {i \in 1 .. Len(commands) :
                      commands[i].type \in {"kStartTransport", "kStopTransport"}}
  IN IF transport = {} THEN "none"
     ELSE commands[CHOOSE i \in transport : \A j \in transport : j <= i].type

\* The events of the active cells of a step at offset 0, read off steps_.
ActiveCells(step_index) ==
  {[offset |-> 0, track_index |-> t, velocity |-> steps[t][step_index]] :
     t \in {u \in Tracks : steps[u][step_index] > 0}}

\* The events from position first to position last, as a set.
EventsBetween(events, first, last) ==
  {events[k] : k \in {j \in first .. last : j <= Len(events)}}

\* C6 as stated: every callback that drained a StartTransport finds the
\* sequencer at step 0 with the emit flag armed and emits the active cells of
\* step 0 at offset 0, ahead of the events of any step advance.
C6_Original ==
  [][SequencerStep /\ (\E i \in 1 .. Len(audio.batch) :
                         audio.batch[i].type = "kStartTransport") =>
       LET before == Len(audio.events)
           cells == Cardinality(ActiveCells(0))
       IN /\ sequencer.current_step = 0
          /\ sequencer.emit_step_on_next_process
          /\ Len(audio'.events) >= before + cells
          /\ EventsBetween(audio'.events, before + 1, before + cells)
               = ActiveCells(0)]_vars

\* C6, amended: a drain whose last transport command is a StartTransport
\* leaves the sequencer at step 0 with the emit flag armed, the full interval
\* of step 0 ahead and the transport running, also when it ran before; the
\* flag is only ever armed at step 0; and if transport_running_ is still set
\* when processSequencer runs, that callback emits exactly the active cells
\* of step 0 at offset 0, after the drained pad events and ahead of the
\* events of any step advance, and clears the flag.
C6_StartResets ==
  /\ [](sequencer.emit_step_on_next_process =>
          sequencer.current_step = 0 /\ playhead_step = 0)
  /\ [][DrainStep /\ LastTransport(audio'.batch) = "kStartTransport" =>
          /\ sequencer'.current_step = 0
          /\ sequencer'.emit_step_on_next_process
          /\ sequencer'.samples_to_next_step = stepIntervalSamples(0)
          /\ playhead_step' = 0
          /\ transport_running'
          /\ engine'.transport.is_playing]_vars
  /\ [][SequencerStep /\ LastTransport(audio.batch) = "kStartTransport"
                      /\ transport_running =>
          LET before == Len(audio.events)
              cells == Cardinality(ActiveCells(0))
          IN /\ sequencer.current_step = 0
             /\ sequencer.emit_step_on_next_process
             /\ ~sequencer'.emit_step_on_next_process
             /\ Len(audio'.events) >= before + cells
             /\ SubSeq(audio'.events, 1, before) = audio.events
             /\ EventsBetween(audio'.events, before + 1, before + cells)
                  = ActiveCells(0)
             /\ \A k \in (before + cells + 1) .. Len(audio'.events) :
                  audio'.events[k] \notin ActiveCells(0)]_vars

\* A StartTransport drained while the transport was running at a later step
\* has restarted the pattern: the callback holds the kick of step 0 at
\* offset 0.
C6_Witness ==
  /\ audio.pc = "render"
  /\ audio.entry_running
  /\ audio.entry_step # 0
  /\ LastTransport(audio.batch) = "kStartTransport"
  /\ \E k \in 1 .. Len(audio.events) :
       audio.events[k] = [offset |-> 0, track_index |-> 0, velocity |-> 127]

\* C7 as stated: while the last transport command drained is a StopTransport,
\* no callback emits a step event and neither current_step nor the published
\* playhead step moves.
C7_Original ==
  [][SequencerStep /\ LastTransport(processed) = "kStopTransport" =>
       /\ sequencer'.current_step = sequencer.current_step
       /\ playhead_step' = playhead_step
       /\ audio'.events = audio.events]_vars

\* C9 as stated: a callback whose frames equal the stored samples_to_next_step
\* advances exactly one step at offset = frames, so that the whole interval of
\* the next step is left at the end of the block.
C9_Original ==
  [][SequencerStep /\ transport_running
                   /\ sequencer.samples_to_next_step = Samples(audio.frames) =>
       LET next_step == (sequencer.current_step + 1) % kSteps
       IN /\ sequencer'.current_step = next_step
          /\ sequencer'.samples_to_next_step = stepIntervalSamples(next_step)
          /\ audio'.events = audio.events \o ArmedEvents
                               \o collectStepEvents(next_step, audio.frames, <<>>)]_vars

\* C9, amended: at 120 bpm, swing 0 and 48000 Hz every step interval is 6000
\* samples, and the 6000-frame callback that drained a StartTransport moves
\* current_step from 0 to 1; in general a callback whose frames equal the
\* samples processSequencer counts down to the next step (the interval it
\* recomputes when the emit flag is armed, else the stored remainder)
\* advances exactly one step, emitted at offset = frames, and leaves the whole
\* interval of the next step.
C9_StepInterval ==
  /\ [](tempo_bpm = 120 /\ swing = 0 /\ sample_rate_hz = 48000 =>
          \A step_index \in Steps : stepIntervalSamples(step_index) = Samples(6000))
  /\ [][SequencerStep /\ LastTransport(audio.batch) = "kStartTransport"
                      /\ transport_running /\ tempo_bpm = 120 /\ swing = 0
                      /\ sample_rate_hz = 48000 /\ audio.frames = 6000 =>
          /\ sequencer.current_step = 0
          /\ sequencer'.current_step = 1
          /\ playhead_step' = 1]_vars
  /\ [][SequencerStep /\ transport_running
                      /\ RemainingToNextStep = Samples(audio.frames) =>
          LET next_step == (sequencer.current_step + 1) % kSteps
          IN /\ sequencer'.current_step = next_step
             /\ playhead_step' = next_step
             /\ sequencer'.samples_to_next_step = stepIntervalSamples(next_step)
             /\ audio'.events = audio.events \o ArmedEvents
                                  \o collectStepEvents(next_step, audio.frames, <<>>)]_vars

\* After a start and a 6000-frame callback that ended at step 1, a second
\* 6000-frame callback has advanced to step 2 and emitted its cells at
\* offset 6000.
C9_Witness ==
  /\ audio.pc = "render"
  /\ callbacks = 2
  /\ tempo_bpm = 120
  /\ audio.frames = 6000
  /\ audio.entry_step = 1
  /\ sequencer.current_step = 2
  /\ \E k \in 1 .. Len(audio.events) : audio.events[k].offset = 6000

\* The step on which a call whose command the queue refused returns.
RejectedCallReturns ==
  /\ control.pc \in {"locked", "fallback"}
  /\ control'.pc = "idle"
  /\ control'.result = "rejected"

\* C5 as stated: when the queue refuses the command of a call, the call has
\* applied the update directly by the time it returns.
C5_Original ==
  [][RejectedCallReturns =>
       LET command == control.command
           track_index == command.track_index
       IN CASE command.type = "kStartTransport" -> transport_running'
            [] command.type = "kStopTransport" -> ~transport_running'
            [] command.type = "kSetTempo" ->
                 engine'.transport.bpm = command.value_a
            [] command.type = "kSetSwing" -> swing' = command.value_a
            [] command.type = "kTriggerTrack" ->
                 engine' = EngineTriggerTrack(engine, track_index, command.value_a)[1]
            [] command.type = "kSetTrackParameters" ->
                 engine' = EngineSetTrackParameters(
                             engine, track_index, command.track_parameters)[1]
            [] command.type = "kSetTrackSample" ->
                 engine'.tracks[track_index].sample = command.sample_data
            [] command.type = "kApplyEngineParameter" ->
                 engine' = EngineApplyParameterUpdate(
                             engine, command.parameter_id, command.value_a)[1]]_vars

EngineStep(op) == control'.op = op

\* What process() mixes of a voice and what a trigger resets: the playback
\* state of the voice.
Playback(v) ==
  [active |-> v.active, playhead |-> v.playhead,
   envelope_age |-> v.envelope_age, filter_age |-> v.filter_age,
   trigger_velocity |-> v.trigger_velocity]

\* C11: after triggerTrack(t, v) returns true on a track whose choke group g
\* is >= 0, no other track of group g is active; a voice whose group differs
\* from g or is -1 keeps its active flag and playback state, and when g is -1
\* every other voice is left as it was.
C11_ChokeOnTrigger ==
  [][(EngineStep("Engine::triggerTrack") /\ control'.result = "true") =>
       LET t == control'.command.track_index
           g == engine.tracks[t].parameters.choke_group
       IN /\ engine'.tracks[t].parameters.choke_group = g
          /\ g >= 0 =>
               \A u \in Tracks \ {t} :
                  engine'.tracks[u].parameters.choke_group = g
                     => ~engine'.tracks[u].active
          /\ \A u \in Tracks \ {t} :
                (g = -1 \/ engine.tracks[u].parameters.choke_group # g
                        \/ engine.tracks[u].parameters.choke_group = -1)
                   => engine'.tracks[u] = engine.tracks[u]]_vars

\* triggerTrack(1, 1.0) has just succeeded with tracks 0 and 1 in group 1,
\* and track 0, triggered at full velocity and not yet rendered, is silent.
C11_Witness ==
  /\ control.op = "Engine::triggerTrack"
  /\ control.result = "true"
  /\ control.command.track_index = 1
  /\ engine.tracks[1].parameters.choke_group = 1
  /\ engine.tracks[0].parameters.choke_group = 1
  /\ engine.tracks[1].active
  /\ ~engine.tracks[0].active
  /\ engine.tracks[0].trigger_velocity = 127
  /\ engine.tracks[0].envelope_age = 0

\* C12: a triggerTrack call that returns false (index out of range, no
\* sample, or velocity 0 after clamping) changes no voice: no active flag,
\* playhead, envelope, filter state or trigger velocity, on any track.
C12_Original ==
  [][(EngineStep("Engine::triggerTrack") /\ control'.result = "false") =>
       \A u \in Tracks : Playback(engine'.tracks[u]) = Playback(engine.tracks[u])]_vars

\* C13: for every pad k in 0..7 and velocity v in 0..127,
\* handleMidiNoteOn(padBaseNote + k, v) returns what triggerTrack(k, v/127)
\* returns and leaves the engine in the same state.
C13_Original ==
  \A k \in Tracks : \A v \in 0 .. 127 :
     EngineHandleMidiNoteOn(engine, engine.pad_base_note + k, v)
        = EngineTriggerTrack(engine, k, v)
(* ----------------------------------------------------------------------- *)
(* Engine parameters                                                       *)
(* ----------------------------------------------------------------------- *)
\* The id decodes to one of the six slots of one of the eight tracks.
ValidParameterId(id) ==
  /\ id >= FF_PARAM_TRACK_BASE
  /\ (id - FF_PARAM_TRACK_BASE) \div FF_PARAM_TRACK_STRIDE < kTrackCount
  /\ (id - FF_PARAM_TRACK_BASE) % FF_PARAM_TRACK_STRIDE \in ParameterSlots

\* The TrackParameters member a slot addresses.
SlotField(slot) ==
  CASE slot = FF_PARAM_SLOT_GAIN -> "gain"
    [] slot = FF_PARAM_SLOT_PAN -> "pan"
    [] slot = FF_PARAM_SLOT_FILTER_CUTOFF -> "filter_cutoff"
    [] slot = FF_PARAM_SLOT_ENVELOPE_DECAY -> "envelope_decay"
    [] slot = FF_PARAM_SLOT_PITCH -> "pitch_semitones"
    [] slot = FF_PARAM_SLOT_CHOKE_GROUP -> "choke_group"

\* C14: applyParameterUpdate returns false and changes nothing when the id is
\* below the track base, decodes to a track index >= 8 or decodes to a slot
\* outside the six; for a valid id it returns true and changes only the
\* addressed slot of the addressed track.
C14_UpdateDecodes ==
  [][EngineStep("Engine::applyParameterUpdate") =>
       LET id == control'.command.parameter_id
           track_index == (id - FF_PARAM_TRACK_BASE) \div FF_PARAM_TRACK_STRIDE
           slot == (id - FF_PARAM_TRACK_BASE) % FF_PARAM_TRACK_STRIDE
       IN IF ~ValidParameterId(id)
          THEN control'.result = "false" /\ engine' = engine
          ELSE /\ control'.result = "true"
               /\ \A t \in Tracks :
                     /\ \A f \in DOMAIN DefaultTrackParameters :
                           (t # track_index \/ f # SlotField(slot)) =>
                              engine'.tracks[t].parameters[f]
                                 = engine.tracks[t].parameters[f]
                     /\ Playback(engine'.tracks[t]) = Playback(engine.tracks[t])
                     /\ engine'.tracks[t].sample = engine.tracks[t].sample
               /\ engine'.transport = engine.transport]_vars

\* An update of the pan of track 0 to 1.0 has returned true, with the gain
\* and the pitch of track 0 still at the ends of their ranges.
C14_Witness ==
  /\ control.op = "Engine::applyParameterUpdate"
  /\ control.result = "true"
  /\ control.command.parameter_id = FF_PARAM_TRACK_BASE + FF_PARAM_SLOT_PAN
  /\ control.command.value_a = 200
  /\ engine.tracks[0].parameters.pan = Centi(100)
  /\ engine.tracks[0].parameters.gain = Centi(200)
  /\ engine.tracks[0].parameters.pitch_semitones = Centi(-2400)
\* C16: whatever setTrackParameters and applyParameterUpdate calls were made,
\* every track's stored parameters have gain in [0,2], pan in [-1,1],
\* filter_cutoff and envelope_decay in [0,1], pitch_semitones in [-24,24]
\* and choke_group -1 or in 0..15.
C16_ParametersInRange ==
  \A t \in Tracks :
     LET p == engine.tracks[t].parameters
     IN /\ 0 <= p.gain /\ p.gain <= Centi(200)
        /\ Centi(-100) <= p.pan /\ p.pan <= Centi(100)
        /\ 0 <= p.filter_cutoff /\ p.filter_cutoff <= Centi(100)
        /\ 0 <= p.envelope_decay /\ p.envelope_decay <= Centi(100)
        /\ Centi(-2400) <= p.pitch_semitones /\ p.pitch_semitones <= Centi(2400)
        /\ p.choke_group \in -1 .. 15

\* setTrackParameters(0, ..) was called with every member above its range
\* (gain 3.0, choke group 20) and track 0 holds the upper ends.
C16_Witness ==
  /\ control.op = "Engine::setTrackParameters"
  /\ control.result = "true"
  /\ control.command.track_index = 0
  /\ control.command.track_parameters = OutOfRangeHigh
  /\ engine.tracks[0].parameters.gain = Centi(200)
  /\ engine.tracks[0].parameters.pitch_semitones = Centi(2400)
  /\ engine.tracks[0].parameters.choke_group = 15
\* round(normalized * 16) of a normalized value n/127: the integer k with
\* k - 1/2 <= 16 n / 127 < k + 1/2 (no n in 0..127 falls on a half).
RoundTimes16(n) ==
  CHOOSE k \in 0 .. 16 : 127 * (2 * k - 1) <= 32 * n /\ 32 * n < 127 * (2 * k + 1)

\* The step is an update of the choke-group slot of track t.
ChokeUpdateStep(t) ==
  /\ EngineStep("Engine::applyParameterUpdate")
  /\ control'.command.parameter_id =
       FF_PARAM_TRACK_BASE + t * FF_PARAM_TRACK_STRIDE + FF_PARAM_SLOT_CHOKE_GROUP

\* C15 as stated: an update of the choke-group slot with a normalized value
\* in [0,1] stores round(normalized * 16) - 1 clamped to [-1, 15], so a value
\* whose product with 16 rounds to 0 gives -1.
C15_Original ==
  [][\A t \in Tracks :
       (ChokeUpdateStep(t) /\ control'.command.value_a \in 0 .. 127) =>
          engine'.tracks[t].parameters.choke_group =
             Clamp(RoundTimes16(control'.command.value_a) - 1, -1, 15)]_vars

\* C15: an update of the choke-group slot stores -1 when the normalized value,
\* clamped to [0,1], is 0, and round(normalized * 16) - 1 clamped to [0, 15]
\* otherwise: a positive value whose product with 16 rounds to 0 gives 0.
C15_ChokeFromNormalized ==
  [][\A t \in Tracks :
       ChokeUpdateStep(t) =>
          LET n == clampNormalized(control'.command.value_a)
          IN engine'.tracks[t].parameters.choke_group =
               IF n = 0 THEN -1 ELSE Clamp(RoundTimes16(n) - 1, 0, 15)]_vars

\* The choke-group slot of track 0 was updated with 2/127, whose product with
\* 16 rounds to 0, and the track is in choke group 0.
C15_Witness ==
  /\ control.op = "Engine::applyParameterUpdate"
  /\ control.result = "true"
  /\ control.command.parameter_id = FF_PARAM_TRACK_BASE + FF_PARAM_SLOT_CHOKE_GROUP
  /\ control.command.value_a = 2
  /\ RoundTimes16(2) = 0
  /\ engine.tracks[0].parameters.choke_group = 0
(* ----------------------------------------------------------------------- *)
(* Runtime parameter mirror and MIDI control changes                       *)
(* ----------------------------------------------------------------------- *)
\* C17: whenever the command queue is empty, no control call is in progress
\* and no audio callback is running, Runtime::trackParameters(i), the
\* project-model mirror, equals the parameters the engine holds for track i,
\* for every track.
C17_Original ==
  (pending_commands = <<>> /\ control.pc = "idle" /\ audio.pc = "idle") =>
     \A t \in Tracks :
        project_model.tracks[t].parameters = engine.tracks[t].parameters
\* The step is a handleMidiMessage call handling a control-change message:
\* it either returns at once or enters enqueueCommand.
ControlChangeStep ==
  /\ control.pc = "idle"
  /\ calls' = calls + 1
  /\ control'.op = "handleMidiMessage"

\* The call has entered enqueueCommand with an ApplyEngineParameter command.
EnqueuesParameterUpdate ==
  /\ control'.pc = "locked"
  /\ control'.command.type = "kApplyEngineParameter"

\* C20: a control-change message does exactly one of two things.  With a
\* learn target armed it binds the CC number to the target's parameter id,
\* disarms learning and enqueues no ApplyEngineParameter command; otherwise,
\* with a binding for the CC number, it enqueues one ApplyEngineParameter
\* command with value data2/127 and changes no binding; with neither it does
\* nothing.
C20_Original ==
  [][ControlChangeStep =>
       IF active_learn # <<>>
       THEN /\ active_learn' = <<>>
            /\ \E cc \in 0 .. 127 :
                  cc_bindings' =
                    [cc_bindings EXCEPT ![cc] = parameterIdForLearnTarget(active_learn[1])]
            /\ ~EnqueuesParameterUpdate
       ELSE IF \E cc \in 0 .. 127 : cc_bindings[cc] # <<>>
       THEN /\ EnqueuesParameterUpdate
            /\ \E cc \in 0 .. 127 :
                  cc_bindings[cc] = <<control'.command.parameter_id>>
            /\ control'.command.value_a = control'.arg
            /\ UNCHANGED midiVars
       ELSE /\ control'.pc = "idle"
            /\ UNCHANGED midiVars]_vars
(* ----------------------------------------------------------------------- *)
(* Samples and rendering                                                   *)
(* ----------------------------------------------------------------------- *)
\* The step is a trigger of track t that returned true, by triggerTrack or by
\* the note of pad t.
TriggerSucceeds(t) ==
  /\ control'.result = "true"
  /\ \/ EngineStep("Engine::triggerTrack") /\ control'.command.track_index = t
     \/ EngineStep("Engine::handleMidiNoteOn")
          /\ control'.arg = engine.pad_base_note + t

\* A voice that is not active is left alone by process() and becomes active
\* only by a trigger of its track that succeeds.
SilentUntilTriggered ==
  \A t \in Tracks :
     ~engine.tracks[t].active =>
        /\ engine'.tracks[t].active => TriggerSucceeds(t)
        /\ EngineStep("Engine::process") => engine'.tracks[t] = engine.tracks[t]

\* C18: setTrackSample(i, s) with a valid index and a non-empty s returns true,
\* replaces the sample and leaves track i inactive at playhead 0, its
\* parameters and the other tracks as they were, and the track stays silent
\* until a trigger of it succeeds; with an empty s or an index >= 8 it returns
\* false and changes nothing.
C18_SetSampleResets ==
  [][/\ EngineStep("Engine::setTrackSample") =>
          LET i == control'.command.track_index
              s == control'.command.sample_data
          IN IF i \in Tracks /\ s # 0
             THEN /\ control'.result = "true"
                  /\ engine'.tracks[i].sample = s
                  /\ ~engine'.tracks[i].active
                  /\ engine'.tracks[i].playhead = 0
                  /\ engine'.tracks[i].parameters = engine.tracks[i].parameters
                  /\ \A u \in Tracks \ {i} : engine'.tracks[u] = engine.tracks[u]
             ELSE /\ control'.result = "false"
                  /\ engine' = engine
     /\ SilentUntilTriggered]_vars

\* setTrackSample(0, ..) has just replaced the sample of track 0 by one of
\* three frames while track 1 is in the middle of its sample: track 0 is
\* reset and silent whatever it was doing before.
C18_Witness ==
  /\ control.op = "Engine::setTrackSample"
  /\ control.result = "true"
  /\ control.command.track_index = 0
  /\ engine.tracks[0].sample = 3
  /\ ~engine.tracks[0].active
  /\ engine.tracks[0].playhead = 0
  /\ engine.tracks[0].parameters.choke_group = 1
  /\ engine.tracks[1].active
  /\ engine.tracks[1].playhead = Samples(1)

\* Frames the voice of track t is mixed into by a process() step: the
\* envelope is multiplied once on each of them.
MixedFrames(t) == engine'.tracks[t].envelope_age - engine.tracks[t].envelope_age

\* C19 as stated: a voice triggered at pitch 0 on a sample of length L is
\* mixed into exactly the next L rendered frames, whatever its envelope does.
C19_Original ==
  [][EngineStep("Engine::process") =>
       \A t \in Tracks :
          LET v == engine.tracks[t]
          IN (v.active /\ v.parameters.pitch_semitones = 0) =>
                /\ MixedFrames(t) = Min(control'.arg, v.sample - v.envelope_age)
                /\ engine'.tracks[t].active
                      = (engine'.tracks[t].envelope_age < v.sample)]_vars

\* C19: a voice triggered at pitch 0 on a sample of length L is mixed into
\* exactly the next L rendered frames, or only into the frames up to the one
\* on which its envelope falls below 1e-4 when that comes first, and into no
\* frame after that; a voice that has become inactive stays inactive, and is
\* not rendered, until a trigger of its track succeeds.
C19_PlaysToEnd ==
  [][/\ EngineStep("Engine::process") =>
          \A t \in Tracks :
             LET v == engine.tracks[t]
                 last == Min(v.sample,
                             EnvelopeLife(v.parameters.envelope_decay,
                                          sample_rate_hz))
             IN (v.active /\ v.parameters.pitch_semitones = 0) =>
                   /\ MixedFrames(t) = Min(control'.arg, last - v.envelope_age)
                   /\ engine'.tracks[t].active
                         = (engine'.tracks[t].envelope_age < last)
     /\ SilentUntilTriggered]_vars

\* A process() call has returned with the voice of track 0, triggered on the
\* sample of 10000 frames with the shortest decay, stopped on the frame on
\* which its envelope fell below the threshold, before the end of the sample.
C19_Witness ==
  /\ control.op = "Engine::process"
  /\ engine.tracks[0].sample = 10000
  /\ engine.tracks[0].parameters.envelope_decay = 0
  /\ ~engine.tracks[0].active
  /\ engine.tracks[0].trigger_velocity = 127
  /\ engine.tracks[0].envelope_age = EnvelopeLife(0, sample_rate_hz)
  /\ engine.tracks[0].envelope_age < 10000
  /\ engine.tracks[0].playhead = Samples(engine.tracks[0].envelope_age)
(* ----------------------------------------------------------------------- *)
(* MIDI input                                                              *)
(* ----------------------------------------------------------------------- *)
\* The message has three bytes or more and the status nibble `nibble`.
HasStatus(bytes, nibble) == Len(bytes) >= 3 /\ bytes[1] \div 16 = nibble

\* C21: at most one learn target is armed.  beginMidiLearn with a track below
\* 8 arms its (track, slot) in place of whatever was armed, and with a track
\* index >= 8 returns false and arms nothing; the next control change binds
\* its CC number to the armed target and disarms; cancelMidiLearn disarms; and
\* no other step arms a target or creates or changes a binding.
C21_SingleLearnTarget ==
  [][/\ Len(active_learn') <= 1
     /\ \A in \in MidiLearnInputs :
           BeginMidiLearn(in[1], in[2]) =>
              IF in[1] < kTrackCount
              THEN /\ active_learn' = << [track_index |-> in[1], slot |-> in[2]] >>
                   /\ cc_bindings' = cc_bindings
                   /\ control'.result = "done"
              ELSE /\ UNCHANGED midiVars
                   /\ control'.result = "invalid"
     /\ \A bytes \in MidiMessageInputs :
           (HandleMidiMessage(bytes) /\ HasStatus(bytes, 11) /\ active_learn # <<>>) =>
              /\ active_learn' = <<>>
              /\ cc_bindings' =
                   [cc_bindings EXCEPT ![bytes[2] % 128] =
                      parameterIdForLearnTarget(active_learn[1])]
     /\ control'.op = "cancelMidiLearn" =>
           active_learn' = <<>> /\ cc_bindings' = cc_bindings
     /\ cc_bindings' # cc_bindings =>
           /\ active_learn # <<>>
           /\ active_learn' = <<>>
           /\ control'.op = "handleMidiMessage"
     /\ (active_learn' # active_learn /\ active_learn' # <<>>) =>
           control'.op = "beginMidiLearn"]_vars

\* After four calls CC 7 is bound to the filter cutoff of track 1 by the
\* control change that was accepted into the queue, no target is armed, CC 8
\* has no binding, and the message handled last found no target and no binding
\* and was ignored.
C21_Witness ==
  /\ calls = 4
  /\ active_learn = <<>>
  /\ cc_bindings[7] =
       parameterIdForLearnTarget([track_index |-> 1, slot |-> "kTrackFilterCutoff"])
  /\ cc_bindings[8] = <<>>
  /\ last_learned_binding = << [track_index |-> 1, cc |-> 7,
                               slot |-> "kTrackFilterCutoff"] >>
  /\ control.op = "handleMidiMessage"
  /\ control.pc = "idle"
  /\ control.result = "invalid"
  /\ Len(accepted) = 3
  /\ accepted[3].type = "kApplyEngineParameter"
\* The message is a note-on of three bytes with velocity > 0 for one of the
\* eight pads above pad_base_note_.
PadNoteOn(bytes) ==
  /\ HasStatus(bytes, 9)
  /\ (bytes[3] % 128) > 0
  /\ (bytes[2] % 128) >= engine.pad_base_note
  /\ (bytes[2] % 128) < engine.pad_base_note + kTrackCount

\* handleMidiMessage(bytes) passes TriggerTrack(note - padBaseNote,
\* velocity/127) to enqueueCommand for a pad note-on and returns without
\* touching the queue for a message that is neither that nor a control change;
\* neither changes a binding or the learn state.
NoteMessageHandled ==
  \A bytes \in MidiMessageInputs :
     (HandleMidiMessage(bytes) /\ ~HasStatus(bytes, 11)) =>
        /\ UNCHANGED <<midiVars, pending_commands, accepted, engine>>
        /\ IF PadNoteOn(bytes)
           THEN /\ control'.pc = "locked"
                /\ control'.command =
                     [Command("kTriggerTrack") EXCEPT
                        !.track_index = (bytes[2] % 128) - engine.pad_base_note,
                        !.value_a = bytes[3] % 128]
           ELSE control'.pc = "idle"

\* The step on which the enqueueCommand call of a pad note-on returns.
PadEnqueueReturns == EnqueueReturns /\ control.op = "triggerPad"

\* C22 as stated: a pad note-on enqueues exactly one TriggerTrack(note -
\* padBaseNote, velocity/127); every other message that is not a control
\* change enqueues nothing and changes no binding and no learn state.
C22_Original ==
  [][/\ NoteMessageHandled
     /\ PadEnqueueReturns =>
          pending_commands' = Append(pending_commands, control.command)]_vars

\* C22: a pad note-on enqueues exactly one TriggerTrack(note - padBaseNote,
\* velocity/127), or, when the queue is at its limit, enqueues nothing and
\* calls engine_.triggerTrack with the same track and velocity; every other
\* message that is not a control change enqueues nothing and changes no
\* binding and no learn state.
C22_NoteOnTriggersPad ==
  [][/\ NoteMessageHandled
     /\ PadEnqueueReturns =>
          IF Len(pending_commands) < QueueCapacity
          THEN /\ pending_commands' = Append(pending_commands, control.command)
               /\ control'.pc = "idle"
          ELSE /\ pending_commands' = pending_commands
               /\ control'.pc = "fallback"
     /\ (control.pc = "fallback" /\ control.op = "triggerPad") =>
          /\ pending_commands' = pending_commands
          /\ engine' = EngineTriggerTrack(engine, control.command.track_index,
                                          control.command.value_a)[1]
     /\ (Len(pending_commands') > Len(pending_commands)) =>
          (Len(pending_commands') = Len(pending_commands) + 1 /\ EnqueueReturns)]_vars

\* The note-on for pad 1 at velocity 100 has been accepted into the queue as
\* its only TriggerTrack command.
C22_Witness ==
  /\ control.op = "triggerPad"
  /\ control.pc = "idle"
  /\ control.result = "accepted"
  /\ Len(pending_commands) = 3
  /\ pending_commands[3] =
       [Command("kTriggerTrack") EXCEPT !.track_index = 1, !.value_a = 100]
  /\ \A k \in 1 .. 2 : pending_commands[k].type # "kTriggerTrack"

(* ----------------------------------------------------------------------- *)
(* Start, stop and the audio device configuration                          *)
(* (apps/desktop/src/runtime.cpp, packages/engine-cpp/src/engine.cpp)      *)
(* ----------------------------------------------------------------------- *)
\* The three members of config.audio as Runtime::start stores them: a zero
\* sample rate becomes 48000, a zero buffer size 256, an empty device id
\* "default".
DefaultedAudioConfig(config) ==
  [device_id |-> IF config.device_id = "" THEN "default" ELSE config.device_id,
   sample_rate_hz |-> IF config.sample_rate_hz = 0 THEN 48000
                      ELSE config.sample_rate_hz,
   buffer_size_frames |-> IF config.buffer_size_frames = 0 THEN 256
                          ELSE config.buffer_size_frames]

\* Runtime::loadStarterKit when default.ffproject parses to kit and the
\* starter-kit directory holds no WAV file: it fails at the first track that
\* names a sample and otherwise stores the project.
StarterKitLoads(kit) == \A t \in Tracks : kit.tracks[t].sample_path = ""

\* Runtime::start.  backend_started is what audio_backend_->start returns; the
\* MIDI backend's result is not looked at.
Start(config, kit, backend_started) ==
  /\ control.pc = "idle"
  /\ is_running \/ project_mutex = "free"
  /\ calls' = calls + 1
  /\ UNCHANGED <<pending_commands, command_mutex, sequencer, steps,
                 track_choke_groups, atomicVars, midiVars, project_file, host,
                 project_mutex, midi_mutex, runtime_status, saved_project, restored,
                 audio, render_log, accepted, processed, callbacks>>
  /\ IF is_running
     THEN /\ control' = [ControlIdle EXCEPT !.op = "start", !.result = "true"]
          /\ UNCHANGED <<sample_rate_hz, buffer_size_frames, device_id,
                         is_running, engine, project_model>>
     ELSE LET audio_config == DefaultedAudioConfig(config)
              configured == EngineSetAudioDeviceConfig(engine, audio_config)
              kit_loaded == configured[2] /\ StarterKitLoads(kit)
              started == kit_loaded /\ backend_started
          IN /\ sample_rate_hz' = audio_config.sample_rate_hz
             /\ buffer_size_frames' = audio_config.buffer_size_frames
             /\ device_id' = audio_config.device_id
             /\ engine' = IF configured[2]
                          THEN [configured[1] EXCEPT
                                  !.profiling_enabled = TRUE,
                                  !.performance_stats =
                                     DefaultEngine.performance_stats,
                                  !.pad_base_note = kDefaultPadBaseNote]
                          ELSE engine
             /\ project_model' = IF kit_loaded THEN kit ELSE project_model
             /\ is_running' = started
             /\ control' = [ControlIdle EXCEPT !.op = "start",
                                               !.result = BoolResult(started)]

\* Runtime::stop
Stop ==
  /\ control.pc = "idle"
  /\ calls' = calls + 1
  /\ control' = [ControlIdle EXCEPT !.op = "stop", !.result = "done"]
  /\ is_running' = FALSE
  /\ transport_running' = IF is_running THEN FALSE ELSE transport_running
  /\ UNCHANGED <<pending_commands, command_mutex, engine, sequencer, steps,
                 track_choke_groups, tempo_bpm, swing, playhead_step,
                 timeline_sample, project_model, midiVars, sample_rate_hz,
                 buffer_size_frames, device_id, project_file, host,
                 project_mutex, midi_mutex, runtime_status, saved_project, restored,
                 audio, render_log, accepted, processed, callbacks>>

\* engine.setAudioDeviceConfig(config)
CallSetAudioDeviceConfig(config) ==
  LET r == EngineSetAudioDeviceConfig(engine, config)
  IN EngineCall("Engine::setAudioDeviceConfig", Command("kStartTransport"), 0,
                BoolResult(r[2]), r[1])

\* Configurations with every member present or missing.
AudioConfigInputs ==
  [device_id : {"", "usb"}, sample_rate_hz : {0, 44100},
   buffer_size_frames : {0, 128}]

\* Starter kits: a project that names no sample, and one whose first track
\* names a sample that is not there.
StarterKitInputs ==
  {DefaultProjectModel,
   [DefaultProjectModel EXCEPT !.tracks[0].sample_path = "kick.wav"]}

NextConfig ==
  \/ /\ calls < MaxCalls
     /\ \E config \in AudioConfigInputs, kit \in StarterKitInputs,
           backend_started \in BOOLEAN : Start(config, kit, backend_started)
  \/ calls < MaxCalls /\ Stop
  \/ \E config \in AudioConfigInputs : CallSetAudioDeviceConfig(config)

\* The runtime being started and stopped, and the engine configured directly.
SpecConfig == Init /\ [][NextConfig]_vars

\* The stored audio configuration of the runtime (config_.audio)
RuntimeAudioConfig ==
  [device_id |-> device_id, sample_rate_hz |-> sample_rate_hz,
   buffer_size_frames |-> buffer_size_frames]

\* A configuration the error taxonomy calls invalid
InvalidAudioConfig(config) ==
  \/ config.sample_rate_hz = 0
  \/ config.buffer_size_frames = 0
  \/ config.device_id = ""

\* C23: a configuration with zero sample rate, zero buffer size or an empty
\* device id is rejected by Runtime::start (called while not running) and by
\* Engine::setAudioDeviceConfig: the call returns false, the stored
\* configurations of the runtime and of the engine stay as they were, and
\* after the rejected start the runtime is not running.
C23_Original ==
  [][\A config \in AudioConfigInputs :
       InvalidAudioConfig(config) =>
         /\ CallSetAudioDeviceConfig(config) =>
              /\ control'.result = "false"
              /\ engine'.audio_device_config = engine.audio_device_config
         /\ (~is_running /\ \E kit \in StarterKitInputs, b \in BOOLEAN :
                              Start(config, kit, b)) =>
              /\ control'.result = "false"
              /\ RuntimeAudioConfig' = RuntimeAudioConfig
              /\ engine'.audio_device_config = engine.audio_device_config
              /\ ~is_running']_vars

(* ----------------------------------------------------------------------- *)
(* Project files (apps/desktop/src/project_io.cpp)                         *)
(* ----------------------------------------------------------------------- *)
\* Text is a sequence of pieces: a run of ordinary characters, the marker
\* kTagBpmPrefix, or a number as formatFloat prints it (held in millionths).
Chars(string) == [kind |-> "chars", chars |-> string, number |-> 0]
kTagBpmPrefix == [kind |-> "tag", chars |-> "|FF_BPM=", number |-> 0]
Number(millionths) == [kind |-> "number", chars |-> "", number |-> millionths]

\* a / b rounded to the nearest integer, halves away from zero
RoundDiv(a, b) ==
  IF a >= 0 THEN (2 * a + b) \div (2 * b) ELSE -((2 * (-a) + b) \div (2 * b))

RECURSIVE GCD(_, _)
GCD(a, b) == IF b = 0 THEN a ELSE GCD(b, a % b)

\* value * n / d rounded to the nearest integer, computed on the whole and
\* the fractional part separately
ScaleRound(value, n, d) ==
  LET magnitude == IF value < 0 THEN -value ELSE value
      scaled == (magnitude \div d) * n + RoundDiv((magnitude % d) * n, d)
  IN IF value < 0 THEN -scaled ELSE scaled

\* formatFloat printing 2 decimals (the result still in millionths)
formatFloat_TwoDecimals(value, unit) ==
  LET g == GCD(100, unit)
  IN 10000 * ScaleRound(value, 100 \div g, unit \div g)

\* formatFloat: fixed notation with 6 decimals.  `unit` is what 1.0 is in the
\* model's representation of the value; the result is in millionths.
formatFloat(value, unit) ==
  LET g == GCD(1000000, unit)
  IN ScaleRound(value, 1000000 \div g, unit \div g)

\* parseFloat (strtof) of a number printed with 6 decimals, to the resolution
\* of the model's representation
parseFloat(millionths, unit) ==
  LET g == GCD(1000000, unit)
  IN ScaleRound(millionths, unit \div g, 1000000 \div g)

\* encodeText: every byte becomes two hex digits
encodeText(text) ==
  [i \in 1 .. Len(text) |-> [hex |-> TRUE, byte |-> text[i]]]

\* decodeText: <<ok, text>>; fails on anything that is not a pair of hex digits
decodeText(value) ==
  IF \A i \in 1 .. Len(value) : value[i].hex
  THEN <<TRUE, [i \in 1 .. Len(value) |-> value[i].byte]>>
  ELSE <<FALSE, <<>>>>

\* buildProjectNameWithMeta: name, marker, bpm
buildProjectNameWithMeta(project) ==
  project.name \o <<kTagBpmPrefix, Number(formatFloat(project.bpm, 1))>>

\* parseProjectNameAndMeta: the name is what precedes the first marker, the
\* bpm what follows it when that parses as one number, clamped to [20, 300].
parseProjectNameAndMeta(encoded, project) ==
  LET markers == {i \in 1 .. Len(encoded) : encoded[i] = kTagBpmPrefix}
  IN IF markers = {}
     THEN [project EXCEPT !.name = encoded, !.bpm = 120]
     ELSE LET marker == CHOOSE i \in markers : \A j \in markers : i <= j
              bpm_text == SubSeq(encoded, marker + 1, Len(encoded))
          IN [project EXCEPT
                !.name = SubSeq(encoded, 1, marker - 1),
                !.bpm = IF Len(bpm_text) = 1 /\ bpm_text[1].kind = "number"
                        THEN Clamp(parseFloat(bpm_text[1].number, 1), 20, 300)
                        ELSE 120]

\* One line of a project file: what it starts with, its text field, and its
\* numeric fields in order.
Line(kind, text, fields) == [kind |-> kind, text |-> text, fields |-> fields]

\* The lines saveProjectToFile writes for one track of the kit
TrackLines(project, track) ==
  LET track_state == project.tracks[track]
      p == track_state.parameters
      choke == IF p.choke_group < 0 THEN -1 ELSE Min(p.choke_group, 15)
  IN (IF track_state.sample_path # ""
      THEN <<Line("track|", encodeText(<<Chars(track_state.sample_path)>>),
                  <<track>>)>>
      ELSE <<>>)
     \o <<Line("control|", <<>>,
               <<track, formatFloat(p.gain, Centi(100)),
                 formatFloat(p.pan, Centi(100)),
                 formatFloat(p.filter_cutoff, Centi(100)),
                 formatFloat(p.envelope_decay, Centi(100)),
                 formatFloat(p.pitch_semitones, Centi(100)), choke>>)>>

RECURSIVE KitLines(_, _)
KitLines(project, track) ==
  IF track >= kTrackCount THEN <<>>
  ELSE TrackLines(project, track) \o KitLines(project, track + 1)

\* saveProjectToFile: the lines of the file written
saveProjectToFile(project) ==
  <<Line("FF_PROJECT_V1", <<>>, <<>>),
    Line("name=", encodeText(buildProjectNameWithMeta(project)), <<>>),
    Line("active_kit=", <<>>, <<0>>),
    Line("active_pattern=", <<>>, <<0>>),
    Line("BEGIN_KIT", <<>>, <<>>),
    Line("name=", encodeText(<<Chars("Desktop Kit")>>), <<>>)>>
  \o KitLines(project, 0)
  \o <<Line("END_KIT", <<>>, <<>>),
       Line("BEGIN_PATTERN", <<>>, <<>>),
       Line("name=", encodeText(<<Chars("Desktop Pattern")>>), <<>>),
       Line("swing=", <<>>, <<formatFloat(project.swing, 100)>>)>>
  \o [i \in 1 .. kTrackCount * kSteps |->
        LET track == (i - 1) \div kSteps
            step == (i - 1) % kSteps
            cell == project.pattern[track][step]
        IN Line("step|", <<>>,
                <<track, step, IF cell.active THEN 1 ELSE 0, cell.velocity>>)]
  \o <<Line("END_PATTERN", <<>>, <<>>)>>

\* loadProjectFromFile on the lines of a file that could be opened:
\* <<returned bool, *project>>.  The loop over the lines is written out by
\* what it leaves: a line is inside the kit (the pattern) when the nearest
\* BEGIN_KIT / END_KIT (BEGIN_PATTERN / END_PATTERN) line before it is the
\* BEGIN line; the kit branch is tested first; the first name= line outside
\* both gives the name and bpm; of the lines that set the same member the
\* last one wins; any malformed line makes the function return false.
loadProjectFromFile(lines) ==
  IF lines = <<>> \/ lines[1].kind # "FF_PROJECT_V1"
  THEN <<FALSE, DefaultProjectModel>>
  ELSE
    LET body == 2 .. Len(lines)
        Last(S) == CHOOSE i \in S : \A j \in S : j <= i
        First(S) == CHOOSE i \in S : \A j \in S : i <= j
        Inside(begin, end) ==
          [i \in body |->
             LET marks == {j \in 2 .. i - 1 : lines[j].kind \in {begin, end}}
             IN marks # {} /\ lines[Last(marks)].kind = begin]
        in_kit == Inside("BEGIN_KIT", "END_KIT")
        in_pattern == Inside("BEGIN_PATTERN", "END_PATTERN")
        names == {i \in body : /\ lines[i].kind = "name="
                               /\ ~in_kit[i] /\ ~in_pattern[i]}
        track_lines == {i \in body : in_kit[i] /\ lines[i].kind = "track|"}
        control_lines == {i \in body : in_kit[i] /\ lines[i].kind = "control|"}
        swing_lines == {i \in body : /\ ~in_kit[i] /\ in_pattern[i]
                                     /\ lines[i].kind = "swing="}
        step_lines == {i \in body : /\ ~in_kit[i] /\ in_pattern[i]
                                    /\ lines[i].kind = "step|"}
        ok == /\ names # {} => decodeText(lines[First(names)].text)[1]
              /\ \A i \in track_lines :
                   /\ Len(lines[i].fields) = 1
                   /\ lines[i].fields[1] \in Tracks
                   /\ decodeText(lines[i].text)[1]
              /\ \A i \in control_lines :
                   /\ Len(lines[i].fields) = 7
                   /\ lines[i].fields[1] \in Tracks
              /\ \A i \in step_lines :
                   /\ Len(lines[i].fields) = 4
                   /\ lines[i].fields[1] \in Tracks
                   /\ lines[i].fields[2] \in Steps
        named == IF names = {} THEN DefaultProjectModel
                 ELSE parseProjectNameAndMeta(
                        decodeText(lines[First(names)].text)[2],
                        DefaultProjectModel)
        SamplePath(t) ==
          LET mine == {i \in track_lines : lines[i].fields[1] = t}
          IN IF mine = {} THEN ""
             ELSE LET decoded == decodeText(lines[Last(mine)].text)[2]
                  IN IF decoded = <<>> THEN "" ELSE decoded[1].chars
        Parameters(t) ==
          LET mine == {i \in control_lines : lines[i].fields[1] = t}
          IN IF mine = {} THEN DefaultTrackParameters
             ELSE LET fields == lines[Last(mine)].fields
                  IN [gain |-> parseFloat(fields[2], Centi(100)),
                      pan |-> parseFloat(fields[3], Centi(100)),
                      filter_cutoff |-> parseFloat(fields[4], Centi(100)),
                      envelope_decay |-> parseFloat(fields[5], Centi(100)),
                      pitch_semitones |-> parseFloat(fields[6], Centi(100)),
                      choke_group |-> fields[7]]
        Cell(t, st) ==
          LET mine == {i \in step_lines : /\ lines[i].fields[1] = t
                                          /\ lines[i].fields[2] = st}
          IN IF mine = {} THEN DefaultProjectModel.pattern[t][st]
             ELSE [active |-> lines[Last(mine)].fields[3] # 0,
                   velocity |-> Clamp(lines[Last(mine)].fields[4], 0, 127)]
        parsed ==
          [name |-> named.name, bpm |-> named.bpm,
           swing |-> IF swing_lines = {} THEN 0
                     ELSE Clamp(parseFloat(lines[Last(swing_lines)].fields[1], 100),
                                0, 45),
           tracks |-> [t \in Tracks |->
                         [sample_path |-> SamplePath(t),
                          parameters |-> Parameters(t)]],
           pattern |-> [t \in Tracks |-> [st \in Steps |-> Cell(t, st)]]]
    IN IF ok THEN <<TRUE, parsed>> ELSE <<FALSE, DefaultProjectModel>>

configVars == <<sample_rate_hz, buffer_size_frames, device_id, is_running>>
mutexVars == <<project_mutex, midi_mutex>>

\* saveProjectToFile(path, project) on a path that can be written
CallSaveProjectToFile(project) ==
  /\ control.pc = "idle"
  /\ project_file' = <<saveProjectToFile(project)>>
  /\ saved_project' = <<project>>
  /\ control' = [ControlIdle EXCEPT !.op = "saveProjectToFile", !.result = "true"]
  /\ UNCHANGED <<pending_commands, command_mutex, engine, steps,
                 track_choke_groups, atomicVars, project_model, midiVars,
                 configVars, mutexVars, host, runtime_status, restored,
                 audioVars, accepted, calls>>

\* loadProjectFromFile(path, &restored); a file never written cannot be opened
CallLoadProjectFromFile ==
  /\ control.pc = "idle"
  /\ LET r == IF project_file = <<>> THEN <<FALSE, DefaultProjectModel>>
              ELSE loadProjectFromFile(project_file[1])
     IN /\ restored' = IF r[1] THEN <<r[2]>> ELSE restored
        /\ control' = [ControlIdle EXCEPT !.op = "loadProjectFromFile",
                                          !.result = BoolResult(r[1])]
  /\ UNCHANGED <<pending_commands, command_mutex, engine, steps,
                 track_choke_groups, atomicVars, project_model, midiVars,
                 configVars, mutexVars, host, runtime_status, project_file,
                 saved_project, audioVars, accepted, calls>>

\* The project of the round-trip test
TestProject ==
  [DefaultProjectModel EXCEPT
     !.name = <<Chars("desktop-roundtrip")>>, !.bpm = 138, !.swing = 22,
     !.tracks[0] = [sample_path |-> "kick.wav",
                    parameters |-> [gain |-> Centi(150), pan |-> Centi(-20),
                                    filter_cutoff |-> Centi(70),
                                    envelope_decay |-> Centi(60),
                                    pitch_semitones |-> Centi(-300),
                                    choke_group |-> 2]],
     !.pattern[0][0] = [active |-> TRUE, velocity |-> 127],
     !.pattern[1][4] = [active |-> TRUE, velocity |-> 110]]

\* Project models: the default, the test's, one with values that are not
\* whole hundredths, and models a caller can build with a member outside the
\* range the runtime keeps it in or with the marker text in the name.
ProjectInputs ==
  {DefaultProjectModel, TestProject,
   [TestProject EXCEPT !.name = <<>>, !.tracks[7].parameters.gain = 4233,
                       !.tracks[7].parameters.choke_group = 15,
                       !.pattern[7][15] = [active |-> FALSE, velocity |-> 1]],
   [TestProject EXCEPT !.name = <<Chars("a"), kTagBpmPrefix, Chars("b")>>],
   [TestProject EXCEPT !.bpm = 500],
   [TestProject EXCEPT !.bpm = 10],
   [TestProject EXCEPT !.swing = 90],
   [TestProject EXCEPT !.tracks[1].parameters.choke_group = 16],
   [TestProject EXCEPT !.tracks[1].parameters.choke_group = -2],
   [TestProject EXCEPT !.pattern[2][3] = [active |-> TRUE, velocity |-> 200]],
   [DefaultProjectModel EXCEPT !.name = <<kTagBpmPrefix>>,
                               !.pattern[0][0] = [active |-> TRUE, velocity |-> 0]]}

NextProject ==
  \/ \E project \in ProjectInputs : CallSaveProjectToFile(project)
  \/ CallLoadProjectFromFile

\* Project files written and read back.
SpecProject == Init /\ [][NextProject]_vars

\* restored has the name, bpm, swing, sample paths, parameters and cells of
\* original (bpm and swing within 1e-4, which is exact at the model's
\* resolution).
Reproduces(original, loaded) ==
  /\ loaded.name = original.name
  /\ loaded.bpm = original.bpm
  /\ loaded.swing = original.swing
  /\ \A t \in Tracks :
       /\ loaded.tracks[t].sample_path = original.tracks[t].sample_path
       /\ loaded.tracks[t].parameters = original.tracks[t].parameters
       /\ \A st \in Steps : loaded.pattern[t][st] = original.pattern[t][st]

\* The file on disk is the one the last saveProjectToFile wrote and the last
\* call was a loadProjectFromFile of it.
LoadedAfterSave ==
  /\ control.op = "loadProjectFromFile"
  /\ saved_project # <<>>

\* C26: for every ProjectModel, saveProjectToFile followed by
\* loadProjectFromFile of the same file succeeds and gives back the name, bpm,
\* swing, every track's sample path and parameters and every pattern cell.
C26_Original ==
  LoadedAfterSave =>
    /\ control.result = "true"
    /\ Reproduces(saved_project[1], restored[1])

\* A model with every member in the range the runtime keeps it in and no
\* marker text in its name
ProjectInRange(project) ==
  /\ project.bpm >= 20 /\ project.bpm <= 300
  /\ project.swing >= 0 /\ project.swing <= 45
  /\ \A i \in 1 .. Len(project.name) : project.name[i] # kTagBpmPrefix
  /\ \A t \in Tracks :
       /\ project.tracks[t].parameters.choke_group \in -1 .. 15
       /\ \A st \in Steps : project.pattern[t][st].velocity <= 127

\* C26 (amended): for every ProjectModel with bpm in [20, 300], swing in
\* [0, 0.45], choke groups in [-1, 15], velocities up to 127 and a name that
\* does not contain "|FF_BPM=", saveProjectToFile followed by
\* loadProjectFromFile of the same file succeeds and gives back the name, bpm,
\* swing, every track's sample path and parameters and every pattern cell.
C26_RoundTripInRange ==
  LoadedAfterSave /\ ProjectInRange(saved_project[1]) =>
    /\ control.result = "true"
    /\ Reproduces(saved_project[1], restored[1])

\* A project with a sample path, a gain of a third, the highest choke group
\* and an empty name has been saved and loaded back.
C26_Witness ==
  /\ LoadedAfterSave
  /\ ProjectInRange(saved_project[1])
  /\ saved_project[1].name = <<>>
  /\ saved_project[1].tracks[0].sample_path = "kick.wav"
  /\ saved_project[1].tracks[7].parameters.gain = 4233
  /\ restored = saved_project

(* ----------------------------------------------------------------------- *)
(* Runtime::saveProject and Runtime::loadProject                           *)
(* ----------------------------------------------------------------------- *)

\* Runtime::saveProject: a snapshot of project_model_ taken under
\* project_mutex_, written by saveProjectToFile
SaveProject ==
  /\ control.pc = "idle"
  /\ project_mutex = "free"
  /\ calls' = calls + 1
  /\ project_file' = <<saveProjectToFile(project_model)>>
  /\ saved_project' = <<project_model>>
  /\ control' = [ControlIdle EXCEPT !.op = "saveProject", !.result = "true"]
  /\ UNCHANGED <<pending_commands, command_mutex, engine, steps,
                 track_choke_groups, atomicVars, project_model, midiVars,
                 configVars, mutexVars, host, runtime_status, restored,
                 audioVars, accepted>>

\* The frames loadMonoSample decodes from a sample file that can be read
LoadedSampleFrames == 4000

\* enqueueCommand called by a setter inside loadProject, followed by the
\* setter's own statement when the queue refused the command.
\* st = [pending, accepted, engine]
ReplayCommand(command, st) ==
  IF Len(st.pending) < QueueCapacity
  THEN [st EXCEPT !.pending = Append(@, command),
                  !.accepted = Append(@, command)]
  ELSE CASE command.type = "kSetTempo" ->
              [st EXCEPT !.engine = EngineSetTempoBpm(@, command.value_a)]
         [] command.type = "kSetTrackParameters" ->
              [st EXCEPT !.engine = EngineSetTrackParameters(
                            @, command.track_index, command.track_parameters)[1]]
         [] command.type = "kSetTrackSample" ->
              [st EXCEPT !.engine = EngineSetTrackSample(
                            @, command.track_index, command.sample_data)[1]]
         [] OTHER -> st

RECURSIVE ReplayCommands(_, _)
ReplayCommands(commands, st) ==
  IF commands = <<>> THEN st
  ELSE ReplayCommands(Tail(commands), ReplayCommand(Head(commands), st))

\* The commands of the second loop of loadProject for tracks track .. last
RECURSIVE TrackReplay(_, _, _)
TrackReplay(loaded, track, last) ==
  IF track > last THEN <<>>
  ELSE <<SetTrackParametersCommand(track, loaded.tracks[track].parameters)>>
       \o (IF loaded.tracks[track].sample_path # ""
           THEN <<[Command("kSetTrackSample") EXCEPT
                     !.track_index = track, !.sample_data = LoadedSampleFrames]>>
           ELSE <<>>)
       \o TrackReplay(loaded, track + 1, last)

\* Runtime::loadProject.  samples_load tells whether loadMonoSample can read
\* the sample files the project names; when it cannot, the call returns false
\* at the first track that names one, after the setters before it have run.
LoadProject(samples_load) ==
  /\ control.pc = "idle"
  /\ project_mutex = "free"
  /\ calls' = calls + 1
  /\ \E r \in {IF project_file = <<>> THEN <<FALSE, DefaultProjectModel>>
               ELSE loadProjectFromFile(project_file[1])} :
     LET loaded == r[2]
         with_sample == {t \in Tracks : loaded.tracks[t].sample_path # ""}
         failed == ~samples_load /\ with_sample # {}
         failing == CHOOSE t \in with_sample : \A u \in with_sample : t <= u
         last == IF failed THEN failing ELSE kTrackCount - 1
         bpm == Clamp(loaded.bpm, 20, 300)
         amount == Clamp(loaded.swing, 0, 45)
         stored == [t \in Tracks |-> [st \in Steps |->
                      IF loaded.pattern[t][st].active
                      THEN Clamp(loaded.pattern[t][st].velocity, 1, 127) ELSE 0]]
         replay == <<[Command("kSetTempo") EXCEPT !.value_a = bpm],
                     [Command("kSetSwing") EXCEPT !.value_a = amount]>>
                   \o (IF failed
                       THEN SubSeq(TrackReplay(loaded, 0, last), 1,
                                   Len(TrackReplay(loaded, 0, last)) - 1)
                       ELSE TrackReplay(loaded, 0, last))
         done == ReplayCommands(replay, [pending |-> pending_commands,
                                         accepted |-> accepted,
                                         engine |-> engine])
         by_setters ==
           [project_model EXCEPT
              !.bpm = bpm, !.swing = amount,
              !.pattern = [t \in Tracks |-> [st \in Steps |->
                             [active |-> loaded.pattern[t][st].active,
                              velocity |-> IF stored[t][st] = 0 THEN 100
                                           ELSE stored[t][st]]]],
              !.tracks = [t \in Tracks |->
                            IF t > last THEN @[t]
                            ELSE [sample_path |->
                                    IF t \in with_sample /\ ~failed
                                    THEN loaded.tracks[t].sample_path
                                    ELSE @[t].sample_path,
                                  parameters |-> loaded.tracks[t].parameters]]]
     IN IF ~r[1]
        THEN /\ control' = [ControlIdle EXCEPT !.op = "loadProject",
                                               !.result = "false"]
             /\ UNCHANGED <<pending_commands, accepted, engine, steps,
                            track_choke_groups, tempo_bpm, swing, project_model>>
        ELSE /\ tempo_bpm' = bpm
             /\ swing' = amount
             /\ steps' = stored
             /\ track_choke_groups' =
                  [t \in Tracks |-> IF t > last THEN track_choke_groups[t]
                                    ELSE loaded.tracks[t].parameters.choke_group]
             /\ pending_commands' = done.pending
             /\ accepted' = done.accepted
             /\ engine' = done.engine
             /\ project_model' = IF failed THEN by_setters ELSE loaded
             /\ control' = [ControlIdle EXCEPT !.op = "loadProject",
                                               !.result = BoolResult(~failed)]
  /\ UNCHANGED <<command_mutex, transport_running, playhead_step,
                 timeline_sample, midiVars, outerVars, audioVars>>

\* Runtime::step
RuntimeStep(track_index, step_index) ==
  LET stored == steps[track_index][step_index]
  IN [active |-> stored > 0, velocity |-> IF stored > 0 THEN stored ELSE 100]

\* Models whose files loadProject is given: the default, the round-trip
\* test's (it names a sample file), one with an active cell of velocity 0 and
\* one with an inactive cell of velocity 50.
LoadInputs ==
  {DefaultProjectModel, TestProject,
   [DefaultProjectModel EXCEPT !.pattern[0][0] = [active |-> TRUE, velocity |-> 0]],
   [DefaultProjectModel EXCEPT !.pattern[3][5] = [active |-> FALSE, velocity |-> 50]]}

NextLoad ==
  \/ \E project \in LoadInputs : CallSaveProjectToFile(project)
  \/ calls < MaxCalls /\ SaveProject
  \/ calls < MaxCalls /\ \E samples_load \in BOOLEAN : LoadProject(samples_load)
  \/ callbacks < MaxCallbacks /\ \E frames \in LiveFrameInputs : AudioDrain(frames)
  \/ AudioSequencer
  \/ AudioRender

\* Project files written by saveProjectToFile and by the runtime, loaded into
\* a runtime whose audio callback drains the queue.
SpecLoad == Init /\ [][NextLoad]_vars

\* The last control-side call was a loadProject that returned true.
LoadSucceeded == control.op = "loadProject" /\ control.result = "true"

\* C27: after Runtime::loadProject succeeds, the project-model mirror, the
\* step grid read by step() and tempoBpm()/swing() hold the same validated
\* values: bpm in [20, 300], swing in [0, 0.45], every cell of the mirror the
\* cell step() returns, an active cell's velocity in 1..127.
C27_Original ==
  LoadSucceeded =>
    /\ project_model.bpm = tempo_bpm /\ tempo_bpm \in 20 .. 300
    /\ project_model.swing = swing /\ swing \in 0 .. 45
    /\ \A t \in Tracks : \A st \in Steps :
         /\ project_model.pattern[t][st] = RuntimeStep(t, st)
         /\ project_model.pattern[t][st].active =>
              project_model.pattern[t][st].velocity \in 1 .. 127

(* ----------------------------------------------------------------------- *)
(* Threads: callers inside the mutexes while the audio callback runs       *)
(* ----------------------------------------------------------------------- *)

\* Runtime::saveProject up to the lock_guard on project_mutex_
SaveProjectLock ==
  /\ project_mutex = "free"
  /\ project_mutex' = "saveProject"
  /\ UNCHANGED <<pending_commands, command_mutex, engine, steps,
                 track_choke_groups, atomicVars, project_model, midiVars,
                 configVars, project_file, host, midi_mutex, runtime_status,
                 saved_project, restored, control, audioVars, accepted, calls>>

\* Runtime::saveProject from the snapshot taken under the lock to the return
SaveProjectWrite ==
  /\ project_mutex = "saveProject"
  /\ project_mutex' = "free"
  /\ project_file' = <<saveProjectToFile(project_model)>>
  /\ saved_project' = <<project_model>>
  /\ UNCHANGED <<pending_commands, command_mutex, engine, steps,
                 track_choke_groups, atomicVars, project_model, midiVars,
                 configVars, host, midi_mutex, runtime_status, restored,
                 control, audioVars, accepted, calls>>

\* The audio thread is inside Engine::process with profiling enabled, where
\* recordProcessTiming writes performance_stats_ with plain stores.
WritingPerformanceStats == audio.pc = "render" /\ engine.profiling_enabled

\* What a plain read of a counter returns: the stored value, or, when the
\* read overlaps a plain write of it (a data race), any of the values the
\* build can produce: a stale one, the stored one or the one being written.
PlainRead(value, racing) == IF racing THEN 0 .. value + 1 ELSE {value}

\* Runtime::status up to the lock_guard on midi_mutex_: the atomic loads and
\* the copy of the engine's performance_stats_
StatusRead ==
  /\ midi_mutex = "free"
  /\ midi_mutex' = "status"
  /\ \E xruns \in PlainRead(engine.performance_stats.xrun_count,
                            WritingPerformanceStats) :
       runtime_status' = [runtime_status EXCEPT
                            !.transport_running = transport_running,
                            !.playhead_step = playhead_step,
                            !.timeline_sample = timeline_sample,
                            !.engine_xruns = xruns]
  /\ UNCHANGED <<pending_commands, command_mutex, engine, steps,
                 track_choke_groups, atomicVars, project_model, midiVars,
                 configVars, project_file, host, project_mutex, saved_project,
                 restored, control, audioVars, accepted, calls>>

\* Runtime::status under midi_mutex_: last_learned_binding_ copied, return
StatusReturn ==
  /\ midi_mutex = "status"
  /\ midi_mutex' = "free"
  /\ runtime_status' = [runtime_status EXCEPT
                          !.learned_cc_binding = last_learned_binding]
  /\ UNCHANGED <<pending_commands, command_mutex, engine, steps,
                 track_choke_groups, atomicVars, project_model, midiVars,
                 configVars, project_file, host, project_mutex, saved_project,
                 restored, control, audioVars, accepted, calls>>

\* A caller starting the transport, a thread saving the project, a thread
\* polling status() and the audio callback.
NextLocks ==
  \/ calls < MaxCalls /\ SetTransportRunning(TRUE)
  \/ EnqueueCommand
  \/ Fallback
  \/ SaveProjectLock
  \/ SaveProjectWrite
  \/ StatusRead
  \/ StatusReturn
  \/ callbacks < MaxCallbacks /\ \E frames \in LiveFrameInputs : AudioDrain(frames)
  \/ AudioSequencer
  \/ AudioRender

SpecLocks == Init /\ [][NextLocks]_vars

\* A runtime started with the shipped kit (start enables the engine's
\* profiling), a caller starting the transport, a thread polling status() and
\* the audio callback.
NextThreads ==
  \/ calls < MaxCalls /\ Start(DefaultAudioDeviceConfig, DefaultProjectModel, TRUE)
  \/ calls < MaxCalls /\ SetTransportRunning(TRUE)
  \/ EnqueueCommand
  \/ Fallback
  \/ StatusRead
  \/ StatusReturn
  \/ callbacks < MaxCallbacks /\ \E frames \in LiveFrameInputs : AudioDrain(frames)
  \/ AudioSequencer
  \/ AudioRender

SpecThreads == Init /\ [][NextThreads]_vars

\* The audio thread takes a step of handleAudioCallback.
AudioStep == audio' # audio

\* C24: the audio callback never waits for a lock: whatever the other threads
\* hold, the next step of handleAudioCallback (drain, sequencer, render) can
\* be taken, and no step of it changes the holder of command_mutex_,
\* project_mutex_ or midi_mutex_ (the drain's try_lock is released within the
\* step).
C24_AudioNeverBlocks ==
  /\ [](/\ audio.pc = "idle" /\ callbacks < MaxCallbacks =>
             ENABLED (\E frames \in LiveFrameInputs : AudioDrain(frames))
        /\ audio.pc = "sequencer" => ENABLED AudioSequencer
        /\ audio.pc = "render" => ENABLED AudioRender)
  /\ [][AudioStep => UNCHANGED <<command_mutex, project_mutex, midi_mutex>>]_vars

\* A callback has got past the drain and the sequencer while a caller is
\* inside enqueueCommand, another inside saveProject's lock and a third
\* inside status()'s lock.
C24_Witness ==
  /\ audio.pc = "render"
  /\ command_mutex = "control"
  /\ project_mutex = "saveProject"
  /\ midi_mutex = "status"

\* C25: every value status() reads that the audio thread may be writing is
\* read atomically or under a lock the writer holds: no status read overlaps
\* an unsynchronized audio-thread write, and the status returned holds the
\* stored transport flag, playhead step, timeline sample and x-run count.
C25_Original ==
  [][StatusRead =>
       /\ ~WritingPerformanceStats
       /\ runtime_status'.transport_running = transport_running
       /\ runtime_status'.playhead_step = playhead_step
       /\ runtime_status'.timeline_sample = timeline_sample
       /\ runtime_status'.engine_xruns = engine.performance_stats.xrun_count]_vars

(* ----------------------------------------------------------------------- *)
(* The plugin host (packages/plugin-host)                                  *)
(* ----------------------------------------------------------------------- *)
\* Host calls explored in one behaviour
MaxHostCalls == 6

kSdkVersionMajor == 1

\* Every variable but the host
nonHostVars ==
  <<pending_commands, command_mutex, engine, steps, track_choke_groups,
    atomicVars, project_model, midiVars, configVars, project_file, mutexVars,
    runtime_status, saved_project, restored, control, audioVars, accepted, calls>>

\* The binary info of the tests' validBinary()
validBinary ==
  [sdk_version_major |-> kSdkVersionMajor,
   entrypoints |-> [has_create |-> TRUE, has_prepare |-> TRUE,
                    has_process |-> TRUE, has_reset |-> TRUE,
                    has_destroy |-> TRUE],
   runtime |-> [rt_safe_process |-> TRUE, allows_dynamic_allocation |-> FALSE,
                requests_process_isolation |-> FALSE,
                has_unbounded_cpu_cost |-> FALSE]]

\* PluginLifecycleFns: each member is "none" (a null pointer) or names what
\* the function does: create returns an "instance" or "null"; prepare returns
\* "true", "false", or true for a non-null "instance" only.
NoLifecycleFns ==
  [create |-> "none", prepare |-> "none", process |-> "none", reset |-> "none",
   destroy |-> "none"]

internalFns ==
  [create |-> "instance", prepare |-> "instance", process |-> "fn",
   reset |-> "fn", destroy |-> "fn"]

NoCalls == [create |-> 0, prepare |-> 0, process |-> 0, reset |-> 0, destroy |-> 0]

NoCounters ==
  [prepare_calls |-> 0, process_calls |-> 0, reset_calls |-> 0,
   deactivate_calls |-> 0]

\* lifecycleFnsComplete
lifecycleFnsComplete(lifecycle_fns) ==
  /\ lifecycle_fns.create # "none" /\ lifecycle_fns.prepare # "none"
  /\ lifecycle_fns.process # "none" /\ lifecycle_fns.reset # "none"
  /\ lifecycle_fns.destroy # "none"

\* Host::validateBinary: the report, its issues by code
validateBinary(descriptor, binary_info) ==
  LET Issue(failed, code) == IF failed THEN <<code>> ELSE <<>>
      e == binary_info.entrypoints
      errors ==
        Issue(descriptor.id = "", "descriptor.id.empty")
        \o Issue(descriptor.name = "", "descriptor.name.empty")
        \o Issue(binary_info.sdk_version_major # kSdkVersionMajor,
                 "sdk.major.incompatible")
        \o Issue(~e.has_create \/ ~e.has_prepare \/ ~e.has_process
                 \/ ~e.has_reset \/ ~e.has_destroy, "entrypoints.missing")
        \o Issue(~binary_info.runtime.rt_safe_process, "rt.process.unsafe")
        \o Issue(binary_info.runtime.allows_dynamic_allocation,
                 "rt.dynamic_allocation")
      warnings ==
        Issue(binary_info.runtime.requests_process_isolation,
              "sandbox.isolation.requested")
        \o Issue(binary_info.runtime.has_unbounded_cpu_cost,
                 "sandbox.unbounded_cpu")
  IN [accepted |-> errors = <<>>, requires_isolation |-> warnings # <<>>,
      issues |-> errors \o warnings]

\* Host::findPlugin: the index of the first plugin with the id, 0 for nullptr
findPlugin(h, plugin_id) ==
  LET found == {i \in 1 .. Len(h.plugins) : h.plugins[i].descriptor.id = plugin_id}
  IN IF found = {} THEN 0 ELSE CHOOSE i \in found : \A j \in found : i <= j

\* Host::hasPluginId
hasPluginId(h, plugin_id) == findPlugin(h, plugin_id) # 0

\* The RegisteredPlugin the three registering functions push_back.
\* entry_calls counts the calls the plugin's own entry points received and
\* returned_true the host calls for it that returned true (history).
RegisteredPlugin(descriptor, binary_info, lifecycle_fns, report, binary_path) ==
  [descriptor |-> descriptor, binary_info |-> binary_info,
   lifecycle_fns |-> lifecycle_fns, runtime_counters |-> NoCounters,
   instance |-> "null", active |-> FALSE,
   requires_isolation |-> report.requires_isolation,
   binary_path |-> binary_path,
   isolation_pending |-> report.requires_isolation,
   isolation_running |-> FALSE,
   entry_calls |-> NoCalls, returned_true |-> NoCounters]

\* A host call returns: the host it leaves and the value returned
HostReturns(h, result) ==
  /\ host.calls < MaxHostCalls
  /\ host' = [h EXCEPT !.result = result, !.calls = host.calls + 1]
  /\ UNCHANGED <<nonHostVars>>

\* Host::registerInternalPlugin
RegisterInternalPlugin(descriptor, binary_info, lifecycle_fns) ==
  LET report == validateBinary(descriptor, binary_info)
  IN IF hasPluginId(host, descriptor.id)
     THEN HostReturns(host, "false")
     ELSE IF ~report.accepted \/ ~lifecycleFnsComplete(lifecycle_fns)
     THEN HostReturns(host, "false")
     ELSE HostReturns(
            [host EXCEPT !.plugins = Append(@, RegisteredPlugin(
               descriptor, binary_info, lifecycle_fns, report, "<internal>"))],
            "true")

\* registerPlugin that pushes the plugin without looking for its id
RegisterPlugin_AllowsDuplicate(descriptor, binary_info) ==
  LET report == validateBinary(descriptor, binary_info)
  IN IF ~report.accepted
     THEN HostReturns(host, "false")
     ELSE HostReturns(
            [host EXCEPT !.plugins = Append(@, RegisteredPlugin(
               descriptor, binary_info, NoLifecycleFns, report, ""))],
            "true")

\* Host::registerPlugin(descriptor, binary_info)
RegisterPlugin(descriptor, binary_info) ==
  LET report == validateBinary(descriptor, binary_info)
  IN IF hasPluginId(host, descriptor.id)
     THEN HostReturns(host, "false")
     ELSE IF ~report.accepted
     THEN HostReturns(host, "false")
     ELSE HostReturns(
            [host EXCEPT !.plugins = Append(@, RegisteredPlugin(
               descriptor, binary_info, NoLifecycleFns, report, ""))],
            "true")

\* Host::registerPlugin(descriptor), with the default binary info
RegisterPluginDefault(descriptor) == RegisterPlugin(descriptor, validBinary)

\* The plugin binaries on disk, by path: whether the library opens and
\* exports its metadata, what the metadata says, whether the class value is
\* one of PluginClass, and the lifecycle symbols it exports.  "valid.so",
\* "invalid.so" (no ff_process symbol) and "isolated.so" are the tests'
\* three plugins, "class.so" has a class value outside PluginClass, any
\* other path cannot be opened.
PluginBinary(binary_path) ==
  LET binary(opens, id, info, class_valid, fns) ==
        [opens |-> opens, descriptor |-> [id |-> id, name |-> "Test Plugin"],
         binary_info |-> info, plugin_class_valid |-> class_valid,
         lifecycle_fns |-> fns]
  IN CASE binary_path = "valid.so" ->
            binary(TRUE, "ff.test.valid", validBinary, TRUE, internalFns)
       [] binary_path = "invalid.so" ->
            binary(TRUE, "ff.test.invalid", validBinary, TRUE,
                   [internalFns EXCEPT !.process = "none"])
       [] binary_path = "isolated.so" ->
            binary(TRUE, "ff.test.isolated",
                   [validBinary EXCEPT !.runtime.requests_process_isolation = TRUE],
                   TRUE, internalFns)
       [] binary_path = "class.so" ->
            binary(TRUE, "ff.test.class", validBinary, FALSE, internalFns)
       [] OTHER -> binary(FALSE, "", validBinary, TRUE, NoLifecycleFns)

\* mergeEntrypointsFromMetadataAndSymbols
mergeEntrypointsFromMetadataAndSymbols(metadata, lifecycle_fns) ==
  [has_create |-> metadata.has_create /\ lifecycle_fns.create # "none",
   has_prepare |-> metadata.has_prepare /\ lifecycle_fns.prepare # "none",
   has_process |-> metadata.has_process /\ lifecycle_fns.process # "none",
   has_reset |-> metadata.has_reset /\ lifecycle_fns.reset # "none",
   has_destroy |-> metadata.has_destroy /\ lifecycle_fns.destroy # "none"]

\* Host::loadPluginBinary; the value returned is the LoadStatus
LoadPluginBinary(binary_path) ==
  LET library == PluginBinary(binary_path)
      lifecycle_fns == library.lifecycle_fns
      binary_info == [library.binary_info EXCEPT
                        !.entrypoints = mergeEntrypointsFromMetadataAndSymbols(
                                          @, lifecycle_fns)]
      report == validateBinary(library.descriptor, binary_info)
      admitted == /\ report.accepted
                  /\ library.plugin_class_valid
                  /\ ~hasPluginId(host, library.descriptor.id)
  IN IF binary_path = "" \/ ~library.opens
     THEN HostReturns(host, "kLoadError")
     ELSE IF ~admitted
     THEN HostReturns(host, "kRejected")
     ELSE IF ~report.requires_isolation /\ ~lifecycleFnsComplete(lifecycle_fns)
     THEN HostReturns(host, "kLoadError")
     ELSE HostReturns(
            [host EXCEPT !.plugins = Append(@, RegisteredPlugin(
               library.descriptor, binary_info, lifecycle_fns, report,
               binary_path))],
            IF report.requires_isolation THEN "kQueuedForIsolation"
            ELSE "kLoadedInProcess")

\* Host::activatePlugin
ActivatePlugin(plugin_id) ==
  LET i == findPlugin(host, plugin_id)
      plugin == host.plugins[i]
      fns == plugin.lifecycle_fns
      instance == IF fns.create = "instance" THEN "instance" ELSE "null"
      prepared == \/ fns.prepare = "true"
                  \/ fns.prepare = "instance" /\ instance # "null"
  IN IF i = 0
     THEN HostReturns(host, "false")
     ELSE IF \/ plugin.active \/ plugin.requires_isolation
             \/ fns.create = "none" \/ fns.prepare = "none"
     THEN HostReturns(host, "false")
     ELSE IF ~prepared
     THEN HostReturns(
            [host EXCEPT
               !.plugins[i].entry_calls.create = @ + 1,
               !.plugins[i].entry_calls.prepare = @ + 1,
               !.plugins[i].entry_calls.destroy =
                  IF fns.destroy # "none" THEN @ + 1 ELSE @,
               !.plugins[i].instance = "null"],
            "false")
     ELSE HostReturns(
            [host EXCEPT
               !.plugins[i].entry_calls.create = @ + 1,
               !.plugins[i].entry_calls.prepare = @ + 1,
               !.plugins[i].instance = instance,
               !.plugins[i].active = TRUE,
               !.plugins[i].runtime_counters.prepare_calls = @ + 1,
               !.plugins[i].returned_true.prepare_calls = @ + 1],
            "true")

\* processPlugin that counts the call before it looks at the plugin's state
ProcessPlugin_CountsInactive(plugin_id) ==
  LET i == findPlugin(host, plugin_id)
      plugin == host.plugins[i]
  IN IF i = 0
     THEN HostReturns(host, "false")
     ELSE IF ~plugin.active \/ plugin.lifecycle_fns.process = "none"
     THEN HostReturns(
            [host EXCEPT !.plugins[i].runtime_counters.process_calls = @ + 1],
            "false")
     ELSE HostReturns(
            [host EXCEPT
               !.plugins[i].entry_calls.process = @ + 1,
               !.plugins[i].runtime_counters.process_calls = @ + 1,
               !.plugins[i].returned_true.process_calls = @ + 1],
            "true")

\* Host::processPlugin
ProcessPlugin(plugin_id) ==
  LET i == findPlugin(host, plugin_id)
      plugin == host.plugins[i]
  IN IF i = 0
     THEN HostReturns(host, "false")
     ELSE IF ~plugin.active \/ plugin.lifecycle_fns.process = "none"
     THEN HostReturns(host, "false")
     ELSE HostReturns(
            [host EXCEPT
               !.plugins[i].entry_calls.process = @ + 1,
               !.plugins[i].runtime_counters.process_calls = @ + 1,
               !.plugins[i].returned_true.process_calls = @ + 1],
            "true")

\* Host::resetPlugin
ResetPlugin(plugin_id) ==
  LET i == findPlugin(host, plugin_id)
      plugin == host.plugins[i]
  IN IF i = 0
     THEN HostReturns(host, "false")
     ELSE IF ~plugin.active \/ plugin.lifecycle_fns.reset = "none"
     THEN HostReturns(host, "false")
     ELSE HostReturns(
            [host EXCEPT
               !.plugins[i].entry_calls.reset = @ + 1,
               !.plugins[i].runtime_counters.reset_calls = @ + 1,
               !.plugins[i].returned_true.reset_calls = @ + 1],
            "true")

\* Host::deactivatePlugin
DeactivatePlugin(plugin_id) ==
  LET i == findPlugin(host, plugin_id)
      plugin == host.plugins[i]
  IN IF i = 0
     THEN HostReturns(host, "false")
     ELSE IF ~plugin.active \/ plugin.lifecycle_fns.destroy = "none"
     THEN HostReturns(host, "false")
     ELSE HostReturns(
            [host EXCEPT
               !.plugins[i].entry_calls.destroy = @ + 1,
               !.plugins[i].instance = "null",
               !.plugins[i].active = FALSE,
               !.plugins[i].runtime_counters.deactivate_calls = @ + 1,
               !.plugins[i].returned_true.deactivate_calls = @ + 1],
            "true")

\* startIsolationSession that marks the session running and leaves the
\* plugin pending
StartIsolationSession_KeepsPending(plugin_id) ==
  LET i == findPlugin(host, plugin_id)
      plugin == host.plugins[i]
  IN IF i = 0
     THEN HostReturns(host, "false")
     ELSE IF ~plugin.requires_isolation \/ ~plugin.isolation_pending
     THEN HostReturns(host, "false")
     ELSE HostReturns([host EXCEPT !.plugins[i].isolation_running = TRUE], "true")

\* Host::startIsolationSession
StartIsolationSession(plugin_id) ==
  LET i == findPlugin(host, plugin_id)
      plugin == host.plugins[i]
  IN IF i = 0
     THEN HostReturns(host, "false")
     ELSE IF ~plugin.requires_isolation \/ ~plugin.isolation_pending
     THEN HostReturns(host, "false")
     ELSE HostReturns(
            [host EXCEPT !.plugins[i].isolation_pending = FALSE,
                         !.plugins[i].isolation_running = TRUE],
            "true")

\* Host::pluginCount
pluginCount(h) == Len(h.plugins)

\* Host::pluginRuntimeCounters
pluginRuntimeCounters(h, plugin_id) ==
  IF findPlugin(h, plugin_id) = 0 THEN NoCounters
  ELSE h.plugins[findPlugin(h, plugin_id)].runtime_counters

\* The internal plugins of the lifecycle tests: the clock, the plugin whose
\* create returns null (its prepare returns true), the plugin whose prepare
\* returns false.
InternalPluginInputs ==
  {<<"ff.internal.clock", internalFns>>,
   <<"ff.internal.null-create",
     [internalFns EXCEPT !.create = "null", !.prepare = "true"]>>,
   <<"ff.internal.prepare-failure",
     [internalFns EXCEPT !.prepare = "false"]>>}

\* The ids the lifecycle calls are made with: the three plugins and one that
\* is never registered.
LifecycleIdInputs ==
  {"ff.internal.clock", "ff.internal.null-create",
   "ff.internal.prepare-failure", "ff.unknown"}

NextLifecycle ==
  \/ \E in \in InternalPluginInputs :
       RegisterInternalPlugin([id |-> in[1], name |-> "Internal"], validBinary, in[2])
  \/ \E plugin_id \in LifecycleIdInputs : ActivatePlugin(plugin_id)
  \/ \E plugin_id \in LifecycleIdInputs : ProcessPlugin(plugin_id)
  \/ \E plugin_id \in LifecycleIdInputs : ResetPlugin(plugin_id)
  \/ \E plugin_id \in LifecycleIdInputs : DeactivatePlugin(plugin_id)

\* Internal plugins registered, activated, processed, reset and deactivated.
SpecLifecycle == Init /\ [][NextLifecycle]_vars

\* The registered plugin with the id (only used where one is registered)
PluginOf(h, plugin_id) == h.plugins[findPlugin(h, plugin_id)]

\* The id is registered and the plugin's create entry point returns null.
CreateReturnsNull(plugin_id) ==
  /\ hasPluginId(host, plugin_id)
  /\ PluginOf(host, plugin_id).lifecycle_fns.create = "null"

\* C28: activatePlugin fails when the plugin's create returns a null
\* instance: prepare and destroy are not called, the plugin stays inactive
\* with all runtime counters at 0, and processPlugin, resetPlugin and
\* deactivatePlugin for it return false.
C28_Original ==
  [][\A plugin_id \in LifecycleIdInputs :
       CreateReturnsNull(plugin_id) =>
         /\ ActivatePlugin(plugin_id) =>
              /\ host'.result = "false"
              /\ PluginOf(host', plugin_id).entry_calls.prepare =
                   PluginOf(host, plugin_id).entry_calls.prepare
              /\ PluginOf(host', plugin_id).entry_calls.destroy =
                   PluginOf(host, plugin_id).entry_calls.destroy
              /\ ~PluginOf(host', plugin_id).active
              /\ pluginRuntimeCounters(host', plugin_id) = NoCounters
         /\ \/ ProcessPlugin(plugin_id)
            \/ ResetPlugin(plugin_id)
            \/ DeactivatePlugin(plugin_id)
            => host'.result = "false"]_vars

\* C29: activatePlugin succeeds only from inactive and makes the plugin
\* active; processPlugin, resetPlugin and deactivatePlugin succeed only while
\* it is active, and deactivatePlugin leaves it inactive; the runtime counters
\* are the numbers of activate, process, reset and deactivate calls that
\* returned true; an activation that fails in prepare calls destroy once on
\* what create returned and leaves the plugin inactive, without an instance,
\* its counters unchanged.
C29_Lifecycle ==
  /\ [](\A i \in 1 .. Len(host.plugins) :
          host.plugins[i].runtime_counters = host.plugins[i].returned_true)
  /\ [][\A plugin_id \in LifecycleIdInputs :
          /\ ActivatePlugin(plugin_id) /\ host'.result = "true" =>
               /\ hasPluginId(host, plugin_id)
               /\ ~PluginOf(host, plugin_id).active
               /\ PluginOf(host', plugin_id).active
          /\ /\ \/ ProcessPlugin(plugin_id)
                \/ ResetPlugin(plugin_id)
                \/ DeactivatePlugin(plugin_id)
             /\ host'.result = "true"
             => /\ hasPluginId(host, plugin_id)
                /\ PluginOf(host, plugin_id).active
          /\ DeactivatePlugin(plugin_id) /\ host'.result = "true" =>
               ~PluginOf(host', plugin_id).active
          /\ /\ ActivatePlugin(plugin_id)
             /\ hasPluginId(host, plugin_id)
             /\ PluginOf(host', plugin_id).entry_calls.prepare =
                  PluginOf(host, plugin_id).entry_calls.prepare + 1
             /\ host'.result = "false"
             => /\ PluginOf(host', plugin_id).entry_calls.create =
                     PluginOf(host, plugin_id).entry_calls.create + 1
                /\ PluginOf(host', plugin_id).entry_calls.destroy =
                     PluginOf(host, plugin_id).entry_calls.destroy + 1
                /\ ~PluginOf(host', plugin_id).active
                /\ PluginOf(host', plugin_id).instance = "null"
                /\ pluginRuntimeCounters(host', plugin_id) =
                     pluginRuntimeCounters(host, plugin_id)]_vars

\* The clock has been activated, processed, reset and deactivated once each,
\* and the last call was a deactivatePlugin that found it inactive.
C29_Witness ==
  /\ hasPluginId(host, "ff.internal.clock")
  /\ pluginRuntimeCounters(host, "ff.internal.clock") =
       [prepare_calls |-> 1, process_calls |-> 1, reset_calls |-> 1,
        deactivate_calls |-> 1]
  /\ ~PluginOf(host, "ff.internal.clock").active
  /\ host.result = "false"

\* Binary infos given to registerPlugin: the valid one, one with the next SDK
\* major version, one without a process entry point, one whose process is not
\* real-time safe, one that declares dynamic allocation, and one that reports
\* unbounded CPU cost (accepted, to be isolated).
BinaryInfoInputs ==
  {validBinary,
   [validBinary EXCEPT !.sdk_version_major = kSdkVersionMajor + 1],
   [validBinary EXCEPT !.entrypoints.has_process = FALSE],
   [validBinary EXCEPT !.runtime.rt_safe_process = FALSE],
   [validBinary EXCEPT !.runtime.allows_dynamic_allocation = TRUE],
   [validBinary EXCEPT !.runtime.has_unbounded_cpu_cost = TRUE]}

\* Descriptors: the tests' external plugin, the id of the valid binary on
\* disk, and one with an empty id.
DescriptorInputs ==
  {[id |-> "ff.external.fx", name |-> "External FX"],
   [id |-> "ff.test.valid", name |-> "Valid"],
   [id |-> "", name |-> "Nameless"]}

BinaryPathInputs == {"valid.so", "invalid.so", "isolated.so", "class.so", "missing.so", ""}

NextRegistry ==
  \/ \E descriptor \in DescriptorInputs : \E binary_info \in BinaryInfoInputs :
       RegisterPlugin(descriptor, binary_info)
  \/ \E descriptor \in DescriptorInputs : RegisterPluginDefault(descriptor)
  \/ \E descriptor \in DescriptorInputs :
       \E lifecycle_fns \in {internalFns, [internalFns EXCEPT !.reset = "none"]} :
         RegisterInternalPlugin(descriptor, validBinary, lifecycle_fns)
  \/ \E binary_path \in BinaryPathInputs : LoadPluginBinary(binary_path)
  \/ \E plugin_id \in {"ff.test.isolated", "ff.test.valid"} :
       StartIsolationSession(plugin_id)
  \/ \E plugin_id \in {"ff.test.isolated", "ff.test.valid"} :
       ActivatePlugin(plugin_id)

\* Plugins registered and loaded, isolation sessions started.
SpecRegistry == Init /\ [][NextRegistry]_vars

\* The binary info loadPluginBinary builds from the library at the path
LoadedBinaryInfo(binary_path) ==
  [PluginBinary(binary_path).binary_info EXCEPT
     !.entrypoints = mergeEntrypointsFromMetadataAndSymbols(
                       @, PluginBinary(binary_path).lifecycle_fns)]

\* What the claim counts as failing validation
FailsValidation(binary_info) ==
  \/ binary_info.sdk_version_major # kSdkVersionMajor
  \/ \E name \in DOMAIN binary_info.entrypoints : ~binary_info.entrypoints[name]
  \/ ~binary_info.runtime.rt_safe_process
  \/ binary_info.runtime.allows_dynamic_allocation

\* C30: plugin ids are unique in the host in every reachable state, and a
\* registering or loading call for an id that is already registered, or with
\* a binary info that fails validation, is rejected and leaves the plugins
\* (and so pluginCount) unchanged.
C30_UniqueIds ==
  /\ [](\A i, j \in 1 .. Len(host.plugins) :
          host.plugins[i].descriptor.id = host.plugins[j].descriptor.id => i = j)
  /\ [][/\ \A descriptor \in DescriptorInputs : \A binary_info \in BinaryInfoInputs :
             /\ hasPluginId(host, descriptor.id) \/ FailsValidation(binary_info)
             /\ \/ RegisterPlugin(descriptor, binary_info)
                \/ RegisterInternalPlugin(descriptor, binary_info, internalFns)
             => /\ host'.result = "false"
                /\ host'.plugins = host.plugins
                /\ pluginCount(host') = pluginCount(host)
        /\ \A binary_path \in BinaryPathInputs :
             /\ PluginBinary(binary_path).opens
             /\ \/ hasPluginId(host, PluginBinary(binary_path).descriptor.id)
                \/ FailsValidation(LoadedBinaryInfo(binary_path))
             /\ LoadPluginBinary(binary_path)
             => /\ host'.result = "kRejected"
                /\ host'.plugins = host.plugins
                /\ pluginCount(host') = pluginCount(host)]_vars

\* The valid binary is loaded and a second load of it has been rejected, with
\* another plugin registered beside it.
C30_Witness ==
  /\ pluginCount(host) = 2
  /\ hasPluginId(host, "ff.test.valid")
  /\ hasPluginId(host, "ff.external.fx")
  /\ host.result = "kRejected"

\* The ids startIsolationSession and activatePlugin are called with in
\* SpecRegistry
IsolationIds == {"ff.test.isolated", "ff.test.valid"}

\* C31: a plugin that requires isolation is registered as pending;
\* startIsolationSession returns true exactly when the plugin is registered,
\* requires isolation and is pending, and then moves it from pending to
\* running, so it succeeds once and fails on every later call, for unknown
\* ids and for plugins that do not require isolation; no plugin is both
\* pending and running; a plugin that requires isolation is never active.
C31_IsolationSessions ==
  /\ [](\A i \in 1 .. Len(host.plugins) :
          LET plugin == host.plugins[i]
          IN /\ ~(plugin.isolation_pending /\ plugin.isolation_running)
             /\ plugin.requires_isolation =>
                  /\ ~plugin.active
                  /\ plugin.isolation_pending \/ plugin.isolation_running
             /\ ~plugin.requires_isolation =>
                  ~plugin.isolation_pending /\ ~plugin.isolation_running)
  /\ [][/\ \A i \in 1 .. Len(host'.plugins) :
             i > Len(host.plugins) /\ host'.plugins[i].requires_isolation =>
               /\ host'.plugins[i].isolation_pending
               /\ ~host'.plugins[i].isolation_running
        /\ \A i \in 1 .. Len(host.plugins) :
             host.plugins[i].isolation_running =>
               /\ host'.plugins[i].isolation_running
               /\ ~host'.plugins[i].isolation_pending
        /\ \A plugin_id \in IsolationIds :
             /\ StartIsolationSession(plugin_id) =>
                  IF /\ hasPluginId(host, plugin_id)
                     /\ PluginOf(host, plugin_id).requires_isolation
                     /\ PluginOf(host, plugin_id).isolation_pending
                  THEN /\ host'.result = "true"
                       /\ ~PluginOf(host', plugin_id).isolation_pending
                       /\ PluginOf(host', plugin_id).isolation_running
                  ELSE /\ host'.result = "false"
                       /\ host'.plugins = host.plugins
             /\ /\ ActivatePlugin(plugin_id)
                /\ hasPluginId(host, plugin_id)
                /\ PluginOf(host, plugin_id).requires_isolation
                => /\ host'.result = "false"
                   /\ host'.plugins = host.plugins]_vars

\* The isolated plugin's session is running and a second
\* startIsolationSession for it has just failed.
C31_Witness ==
  /\ hasPluginId(host, "ff.test.isolated")
  /\ PluginOf(host, "ff.test.isolated").isolation_running
  /\ ~PluginOf(host, "ff.test.isolated").isolation_pending
  /\ Len(host.plugins) = 1
  /\ host.calls = 3
  /\ host.result = "false"

(* ----------------------------------------------------------------------- *)
(* The sequencer over blocks of different sizes                            *)
(* ----------------------------------------------------------------------- *)
\* The swing of the block specification: at 128 bpm the intervals are
\* 6187.5 and 5062.5 samples.
BlockSwingInputs == {10}

\* The calls of the block specification: tempo, swing and the start.
BlockCall ==
  \/ SetTransportRunning(TRUE)
  \/ \E bpm \in TempoInputs : SetTempoBpm(bpm)
  \/ \E amount \in BlockSwingInputs : SetSwing(amount)

NextBlocks ==
  \/ calls < MaxCalls /\ BlockCall
  \/ EnqueueCommand
  \/ Fallback
  \/ AudioCallbackLive

SpecBlocks == Init /\ [][NextBlocks]_vars

\* The block sizes the divisions are made of, and the divisions: every
\* sequence of one, two or three blocks.
BlockSizes == {2500, 35000}
BlockSequences ==
  {<<a>> : a \in BlockSizes}
    \cup {<<a, b>> : a \in BlockSizes, b \in BlockSizes}
    \cup {<<a, b, c>> : a \in BlockSizes, b \in BlockSizes, c \in BlockSizes}

\* The divisions tried from every sequencer state: two blocks of the
\* callback sizes.
BlockPairs == {<<a, b>> : a \in FrameInputs, b \in FrameInputs}

RECURSIVE TotalFrames(_)
TotalFrames(blocks) ==
  IF blocks = <<>> THEN 0 ELSE Head(blocks) + TotalFrames(Tail(blocks))

\* The events with their offsets moved by the frames that came before.
AtAbsoluteFrame(events, before) ==
  [k \in 1 .. Len(events) |-> [events[k] EXCEPT !.offset = @ + before]]

\* Callbacks of the given sizes one after the other with nothing to drain:
\* processSequencer on each block from the state the last one left.  run
\* holds the sequencer state, the playhead step, the frames so far and the
\* events at their absolute frames.
RECURSIVE RunBlocks(_, _)
RunBlocks(blocks, run) ==
  IF blocks = <<>> THEN run
  ELSE
    LET st == processSequencer(Head(blocks),
                [sequencer |-> run.sequencer, playhead_step |-> run.playhead_step,
                 events |-> <<>>])
    IN RunBlocks(Tail(blocks),
         [sequencer |-> st.sequencer, playhead_step |-> st.playhead_step,
          frames |-> run.frames + Head(blocks),
          events |-> run.events \o AtAbsoluteFrame(st.events, run.frames)])

\* The run that starts in the current state.
RunFromHere ==
  [sequencer |-> sequencer, playhead_step |-> playhead_step, frames |-> 0,
   events |-> <<>>]

\* The sum of the first k step intervals after the start, in sixteenths.
RECURSIVE StepBoundary(_)
StepBoundary(k) ==
  IF k = 0 THEN 0
  ELSE StepBoundary(k - 1) + stepIntervalSamples((k - 1) % kSteps)

\* The boundaries of the first twenty steps.
StepBoundaries == [k \in 0 .. 20 |-> StepBoundary(k)]

\* The number of step boundaries within the first frames after the start.
BoundariesWithin(boundary, frames) ==
  CHOOSE k \in 0 .. 19 : /\ boundary[k] <= Samples(frames)
                         /\ boundary[k + 1] > Samples(frames)

\* Step 0 at the start and the k-th step at the rounded k-th boundary, up to
\* the last boundary within the frames.
RECURSIVE Schedule(_, _)
Schedule(boundary, k) ==
  IF k = 0 THEN collectStepEvents(0, 0, <<>>)
  ELSE collectStepEvents(k % kSteps, LLRound(boundary[k]), Schedule(boundary, k - 1))

\* C32: with tempo, swing and pattern fixed and nothing drained after the
\* StartTransport, every division of the frames into blocks emits step 0 at
\* the start and the k-th step at the rounded sum of the first k step
\* intervals, and ends in the same sequencer state, so two divisions with
\* the same total agree; from any later sequencer state two blocks emit what
\* one block of their total emits; and the callback itself emits the
\* schedule of its frames.
C32_BlockSizeIndependence ==
  /\ [][SequencerStep /\ transport_running
                      /\ sequencer.emit_step_on_next_process =>
          \A boundary \in {StepBoundaries} :
            /\ \A blocks \in BlockSequences :
                 \A run \in {RunBlocks(blocks, RunFromHere)} :
                   \A k \in {BoundariesWithin(boundary, run.frames)} :
                     /\ run.events = Schedule(boundary, k)
                     /\ run.sequencer.current_step = k % kSteps
                     /\ run.playhead_step = k % kSteps
                     /\ run.sequencer.samples_to_next_step =
                          boundary[k + 1] - Samples(run.frames)
                     /\ run.sequencer.timeline_sample =
                          sequencer.timeline_sample + run.frames
            /\ \A k \in {BoundariesWithin(boundary, audio.frames)} :
                 /\ audio'.events = audio.events \o Schedule(boundary, k)
                 /\ sequencer'.current_step = k % kSteps]_vars
  /\ [][SequencerStep /\ transport_running =>
          \A blocks \in BlockPairs :
            RunBlocks(blocks, RunFromHere)
              = RunBlocks(<<TotalFrames(blocks)>>, RunFromHere)]_vars

\* The second 6000-frame callback after the start at 128 bpm and swing 0.10:
\* the first boundary, at 6187.5 samples, fell at frame 6188 and the second,
\* at 11250, at offset 5250 of this block.
C32_Witness ==
  /\ audio.pc = "render"
  /\ callbacks = 2
  /\ tempo_bpm = 128
  /\ swing = 10
  /\ audio.frames = 6000
  /\ audio.entry_running
  /\ audio.entry_step = 0
  /\ audio.entry_timeline = 6000
  /\ sequencer.current_step = 2
  /\ sequencer.samples_to_next_step = StepBoundary(3) - Samples(12000)
  /\ \E k \in 1 .. Len(audio.events) : audio.events[k].offset = 5250

(* ----------------------------------------------------------------------- *)
(* The order of the events of one callback                                 *)
(* ----------------------------------------------------------------------- *)
\* The events without the one at position i.
WithoutEvent(events, i) ==
  [k \in 1 .. Len(events) - 1 |-> IF k < i THEN events[k] ELSE events[k + 1]]

\* The events ordered by (offset, track_index) with events of equal key in
\* the order they were collected in: what a stable sort leaves.
RECURSIVE StableOrder(_)
StableOrder(events) ==
  IF events = <<>> THEN <<>>
  ELSE
    LET idx == 1 .. Len(events)
        first == CHOOSE i \in idx :
                   /\ \A j \in idx : ~EventKeyLess(events[j], events[i])
                   /\ \A j \in idx : j < i => EventKeyLess(events[i], events[j])
    IN <<events[first]>> \o StableOrder(WithoutEvent(events, first))

\* C33 as stated: the callback fires its events in non-decreasing
\* (offset, track_index) order with events of equal offset and track in
\* collection order, drained pad triggers before step events, and so leaves
\* on every track the velocity of the last of them.
C33_Original ==
  [][RenderStep =>
       /\ audio'.events = StableOrder(audio.events)
       /\ FiredEvents(render_log') = StableOrder(audio.events)]_vars

(* ----------------------------------------------------------------------- *)
(* Voices and their samples                                                *)
(* ----------------------------------------------------------------------- *)
\* engine.clearTrackSample(track_index)
CallClearTrackSample(track_index) ==
  EngineCall("Engine::clearTrackSample",
             [Command("kSetTrackSample") EXCEPT !.track_index = track_index],
             0, "none", EngineClearTrackSample(engine, track_index))

\* Two pads with short samples, cleared and set again, triggered, moved into
\* one choke group whole and by a normalized update, and rendered.
TrackSampleInputs == {<<0, 2>>, <<1, 3>>, <<0, 0>>}
TrackClearInputs == {0, 1, kTrackCount}
TrackTriggerInputs == {<<0, 127>>, <<1, 127>>, <<0, 0>>}
TrackParameterInputs == {<<1, [DefaultTrackParameters EXCEPT !.choke_group = 1]>>}
TrackUpdateInputs ==
  {<<FF_PARAM_TRACK_BASE + FF_PARAM_SLOT_CHOKE_GROUP, 22>>,
   <<FF_PARAM_TRACK_BASE + FF_PARAM_SLOT_PITCH, 127>>}

NextTracks ==
  \/ \E in \in TrackSampleInputs : CallSetTrackSample(in[1], in[2])
  \/ \E track_index \in TrackClearInputs : CallClearTrackSample(track_index)
  \/ \E in \in TrackTriggerInputs : CallTriggerTrack(in[1], in[2])
  \/ \E in \in TrackParameterInputs : CallSetTrackParameters(in[1], in[2])
  \/ \E in \in TrackUpdateInputs : CallApplyParameterUpdate(in[1], in[2])
  \/ \E frames \in VoiceFrameInputs : CallProcess(frames)

\* The engine's samples and voices under direct calls.
SpecTracks == Init /\ [][NextTracks]_vars

\* C34: in every state a track whose voice is active has a non-empty sample,
\* whatever setTrackSample, clearTrackSample, triggerTrack,
\* setTrackParameters, applyParameterUpdate and process calls came before;
\* the engine holds one voice per track; setTrackSample and clearTrackSample
\* leave the voice of their track inactive; and a triggerTrack that returns
\* true on a sounding track leaves that one voice active at playhead 0.
C34_ActiveHasSample ==
  /\ [](/\ DOMAIN engine.tracks = Tracks
        /\ \A t \in Tracks : engine.tracks[t].active => engine.tracks[t].sample > 0)
  /\ [][/\ \A track_index \in Tracks :
             CallClearTrackSample(track_index) =>
               /\ engine'.tracks[track_index].sample = 0
               /\ ~engine'.tracks[track_index].active
        /\ \A in \in TrackSampleInputs :
             CallSetTrackSample(in[1], in[2]) /\ control'.result = "true" =>
               /\ engine'.tracks[in[1]].sample = in[2]
               /\ ~engine'.tracks[in[1]].active
        /\ \A in \in TrackTriggerInputs :
             CallTriggerTrack(in[1], in[2]) /\ control'.result = "true" =>
               /\ engine.tracks[in[1]].sample > 0
               /\ engine'.tracks[in[1]].sample = engine.tracks[in[1]].sample
               /\ engine'.tracks[in[1]].active
               /\ engine'.tracks[in[1]].playhead = 0]_vars

\* A pad sounds part way through its sample while the other pad, which has
\* played, has just had its sample cleared.
C34_Witness ==
  /\ control.op = "Engine::clearTrackSample"
  /\ control.command.track_index = 0
  /\ engine.tracks[0].sample = 0
  /\ ~engine.tracks[0].active
  /\ engine.tracks[1].active
  /\ engine.tracks[1].playhead > 0

(* ----------------------------------------------------------------------- *)
(* The distance to the next step                                           *)
(* ----------------------------------------------------------------------- *)
\* Tempo and swing beyond their ranges.
TimingTempoInputs == {1000}
TimingSwingInputs == {90}

TimingCall ==
  \/ \E running \in BOOLEAN : SetTransportRunning(running)
  \/ \E bpm \in TimingTempoInputs : SetTempoBpm(bpm)
  \/ \E amount \in TimingSwingInputs : SetSwing(amount)

NextTiming ==
  \/ calls < MaxCalls /\ TimingCall
  \/ EnqueueCommand
  \/ Fallback
  \/ AudioCallbackLive

\* Transport, tempo and swing against the audio callback.
SpecTiming == Init /\ [][NextTiming]_vars

\* The longest step interval of a sample rate: 20 bpm, swing 0.45.
LongestInterval(sample_rate) ==
  (((Samples(Max(1, sample_rate)) * 60) \div (20 * 4)) * 145) \div 100

\* A StartTransport command has been drained.
StartDrained ==
  \E i \in 1 .. Len(processed) : processed[i].type = "kStartTransport"

\* C35 as stated: samples_to_next_step is strictly positive in every
\* reachable state.
C35_Original == sequencer.samples_to_next_step > 0

\* C35, amended: samples_to_next_step is finite and never negative; it is
\* 0.0, the value the sequencer state is constructed with, only until the
\* first StartTransport is drained or processSequencer first advances a
\* step, and strictly positive in every state after that, for every tempo,
\* swing and sample rate and every order of commands and callbacks; every
\* step interval is strictly positive and finite.
C35_PositiveOnceStarted ==
  /\ [](/\ sequencer.samples_to_next_step >= 0
        /\ sequencer.samples_to_next_step
             <= LongestInterval(DefaultAudioDeviceConfig.sample_rate_hz)
        /\ StartDrained => sequencer.samples_to_next_step > 0
        /\ sequencer.samples_to_next_step = 0 =>
             sequencer.current_step = 0 /\ playhead_step = 0
        /\ \A step_index \in Steps :
             /\ stepIntervalSamples(step_index) > 0
             /\ stepIntervalSamples(step_index) <= LongestInterval(sample_rate_hz))
  /\ [][/\ sequencer.samples_to_next_step > 0 =>
             sequencer'.samples_to_next_step > 0
        /\ sequencer'.current_step # sequencer.current_step =>
             sequencer'.samples_to_next_step > 0]_vars

\* After a start with the tempo asked to be 1000 bpm and the swing 0.9, a
\* callback has advanced over several steps and stands inside an odd step,
\* whose interval is 2400 * 0.55 samples.
C35_Witness ==
  /\ audio.pc = "render"
  /\ tempo_bpm = 300
  /\ swing = 45
  /\ StartDrained
  /\ sequencer.current_step % 2 = 1
  /\ sequencer.current_step > 1
  /\ sequencer.samples_to_next_step > 0
  /\ sequencer.samples_to_next_step < Samples(1320)

\* sampleRate * 60 / bpm / 4 at the stored tempo, in sixteenths of a sample.
BaseInterval ==
  (Samples(sample_rate_hz) * 60) \div (Clamp(tempo_bpm, 20, 300) * 4)

\* The sum of the intervals that follow the next n steps after the given one.
RECURSIVE IntervalsAfter(_, _)
IntervalsAfter(step_index, n) ==
  IF n = 0 THEN 0
  ELSE stepIntervalSamples((step_index + n) % kSteps)
         + IntervalsAfter(step_index, n - 1)

\* C36: the interval that follows step k is base = sampleRate*60/bpm/4 when
\* the swing is 0, base*(1+swing) for even k and base*(1-swing) for odd k
\* when it is above 0, with bpm clamped to [20,300] and swing to [0,0.45];
\* two consecutive intervals sum to 2*base and the sixteen intervals of a
\* cycle to 16*base; a drained StartTransport loads the interval of step 0,
\* and a callback that arrives at steps a+1 .. b has counted down what was
\* left of step a and the intervals that follow a+1 .. b, less its frames.
C36_StepIntervals ==
  /\ [](/\ \A k \in Steps :
             /\ swing <= 0 => stepIntervalSamples(k) = BaseInterval
             /\ swing > 0 /\ k % 2 = 0 =>
                  stepIntervalSamples(k) * 100 = BaseInterval * (100 + Min(swing, 45))
             /\ swing > 0 /\ k % 2 = 1 =>
                  stepIntervalSamples(k) * 100 = BaseInterval * (100 - Min(swing, 45))
             /\ stepIntervalSamples(k) + stepIntervalSamples((k + 1) % kSteps)
                  = 2 * BaseInterval
        /\ StepBoundary(kSteps) = kSteps * BaseInterval)
  /\ [][/\ SequencerStep /\ transport_running =>
             LET advances == (sequencer'.current_step + kSteps
                                - sequencer.current_step) % kSteps
             IN sequencer'.samples_to_next_step + Samples(audio.frames)
                  = RemainingToNextStep
                      + IntervalsAfter(sequencer.current_step, advances)
        /\ DrainStep /\ LastTransport(audio'.batch) = "kStartTransport" =>
             sequencer'.samples_to_next_step = stepIntervalSamples(0)]_vars

\* At 120 bpm and swing 0.45 the second 6000-frame callback after the start
\* has passed step 1 at 8700 samples and reached step 2 at 12000, the end of
\* the block, leaving the long interval of 8700 samples ahead.
C36_Witness ==
  /\ audio.pc = "render"
  /\ callbacks = 2
  /\ tempo_bpm = 120
  /\ swing = 45
  /\ audio.entry_step = 0
  /\ sequencer.current_step = 2
  /\ sequencer.samples_to_next_step = Samples(8700)
  /\ BaseInterval = Samples(6000)

\* The step boundaries a callback of the given frames passes: the j-th lies
\* what is left of the current step and the intervals of the j - 1 steps
\* after it ahead.
AdvancesWithin(frames) ==
  Cardinality({j \in 1 .. kSteps :
                 RemainingToNextStep + IntervalsAfter(sequencer.current_step, j - 1)
                   <= Samples(frames)})

\* C37: current_step is always in 0..15 and the published playhead step
\* equals it, at the end of every callback and in between; current_step
\* changes only in processSequencer with the transport running, by one
\* modulo 16 for each step boundary within the frames of the callback, and
\* in the drain of a StartTransport, to 0.
C37_StepCounter ==
  /\ [](/\ sequencer.current_step \in 0 .. kSteps - 1
        /\ playhead_step = sequencer.current_step)
  /\ [][/\ SequencerStep =>
             sequencer'.current_step =
               IF transport_running
               THEN (sequencer.current_step + AdvancesWithin(audio.frames)) % kSteps
               ELSE sequencer.current_step
        /\ DrainStep =>
             sequencer'.current_step =
               IF \E i \in 1 .. Len(audio'.batch) :
                    audio'.batch[i].type = "kStartTransport"
               THEN 0 ELSE sequencer.current_step
        /\ ~SequencerStep /\ ~DrainStep =>
             /\ sequencer'.current_step = sequencer.current_step
             /\ playhead_step' = playhead_step]_vars

\* A callback that entered at a later step has drained a second
\* StartTransport: step counter and playhead are back at 0.
C37_Witness ==
  /\ audio.pc = "sequencer"
  /\ audio.entry_step = 2
  /\ audio.entry_running
  /\ sequencer.current_step = 0
  /\ playhead_step = 0
  /\ sequencer.emit_step_on_next_process

(* ----------------------------------------------------------------------- *)
(* The order in which calls take effect                                    *)
(* ----------------------------------------------------------------------- *)
\* The last control call has returned and every command has been drained.
AllDrained == control.pc = "idle" /\ pending_commands = <<>>

\* C38 as stated: once every pending command has been drained, the engine
\* and the transport hold the value of the most recent call for the setting
\* that call changed, whether its command was queued or refused.
C38_Original ==
  AllDrained =>
    LET command == control.command
    IN CASE control.op = "setTransportRunning" ->
              transport_running = control.arg
         [] control.op = "setTempoBpm" -> engine.transport.bpm = control.arg
         [] control.op = "setTrackParameters" /\ control.result # "invalid" ->
              engine.tracks[command.track_index].parameters
                = EngineSetTrackParameters(engine, command.track_index,
                    command.track_parameters)[1].tracks[command.track_index].parameters
         [] control.op = "setTrackSampleFromLoaded" /\ control.result # "invalid" ->
              engine.tracks[command.track_index].sample = command.sample_data
         [] OTHER -> TRUE

\* The calls of the batch specification: a pad, its sample and its
\* parameters.
BatchCall ==
  \/ \E in \in PadInputs : TriggerPad(in[1], in[2])
  \/ \E in \in SampleInputs : SetTrackSampleFromLoaded(in[1], in[2])
  \/ \E in \in ParameterInputs : SetTrackParameters(in[1], in[2])

NextBatch ==
  \/ calls < MaxCalls /\ BatchCall
  \/ EnqueueCommand
  \/ Fallback
  \/ AudioCallbackLive

\* Pad triggers, samples and parameters queued against the audio callback.
SpecBatch == Init /\ [][NextBatch]_vars

\* The commands of the batch other than TriggerTrack, in order.
NonTriggers(batch) ==
  SelectSeq(batch, LAMBDA command : command.type # "kTriggerTrack")

\* The zero-offset events of the TriggerTrack commands of the batch, in order.
PadEvents(batch) ==
  LET triggers == SelectSeq(batch, LAMBDA command : command.type = "kTriggerTrack")
  IN [k \in 1 .. Len(triggers) |->
        [offset |-> 0, track_index |-> triggers[k].track_index,
         velocity |-> Clamp(triggers[k].value_a, 0, 127)]]

\* The batch holds a TriggerTrack for the track and, later in the queue, a
\* command of the given type for the same track.
TriggerThen(batch, track_index, type) ==
  \E i \in 1 .. Len(batch), j \in 1 .. Len(batch) :
    /\ i < j
    /\ batch[i].type = "kTriggerTrack" /\ batch[i].track_index = track_index
    /\ batch[j].type = type /\ batch[j].track_index = track_index

\* The last command of the type for the track in the batch.
LastFor(batch, track_index, type) ==
  LET for == {j \in 1 .. Len(batch) : /\ batch[j].type = type
                                      /\ batch[j].track_index = track_index}
  IN batch[CHOOSE j \in for : \A k \in for : k <= j]

\* C39: the drain applies every non-trigger command of its batch to the
\* engine, in order, and turns the TriggerTrack commands into events without
\* touching the engine; the render step of the same callback then fires
\* every one of them; so a pad trigger queued before a SetTrackSample or a
\* SetTrackParameters for its track plays the new sample with the new
\* parameters.
C39_TriggersAfterCommands ==
  /\ [][DrainStep =>
          /\ engine' = ApplyCommands(NonTriggers(audio'.batch),
                         [engine |-> engine, sequencer |-> sequencer,
                          transport_running |-> transport_running,
                          playhead_step |-> playhead_step,
                          events |-> <<>>]).engine
          /\ audio'.events = PadEvents(audio'.batch)]_vars
  /\ [][RenderStep =>
          /\ \A k \in 1 .. Len(audio.events) :
               Occurrences(FiredEvents(render_log'), audio.events[k])
                 = Occurrences(audio.events, audio.events[k])
          /\ \A t \in Tracks :
               /\ TriggerThen(audio.batch, t, "kSetTrackSample") =>
                    /\ engine'.tracks[t].sample
                         = LastFor(audio.batch, t, "kSetTrackSample").sample_data
                    /\ engine'.tracks[t].playhead > 0
                    /\ engine'.tracks[t].trigger_velocity > 0
               /\ TriggerThen(audio.batch, t, "kSetTrackParameters") =>
                    engine'.tracks[t].parameters =
                      EngineSetTrackParameters(engine, t,
                        LastFor(audio.batch, t, "kSetTrackParameters").track_parameters
                        )[1].tracks[t].parameters]_vars

\* A callback has drained a pad trigger followed by the sample and the
\* parameters of its track and has rendered: the pad has played the sample
\* with the new parameters.
C39_Witness ==
  /\ audio.pc = "idle"
  /\ Len(audio.batch) = 3
  /\ audio.batch[1].type = "kTriggerTrack"
  /\ audio.batch[2].type = "kSetTrackSample"
  /\ audio.batch[3].type = "kSetTrackParameters"
  /\ engine.tracks[0].sample = 4000
  /\ engine.tracks[0].playhead > 0
  /\ engine.tracks[0].parameters.choke_group = 1

NextToggle ==
  \/ calls < MaxCalls /\ ToggleTransport
  \/ EnqueueCommand
  \/ Fallback
  \/ AudioCallbackLive

\* toggleTransport calls against the audio callback.
SpecToggle == Init /\ [][NextToggle]_vars

\* The commands Runtime::Runtime queues: the parameters of the two hats.
ConstructorCommands ==
  << SetTrackParametersCommand(2, hat_closed),
     SetTrackParametersCommand(4, hat_open) >>

\* C40 as stated: after n toggleTransport calls, each of which had its
\* command queued, and a drain, the transport is running iff n is odd,
\* whether or not a callback ran between the calls.
C40_Original ==
  AllDrained /\ Len(accepted) = Len(ConstructorCommands) + calls =>
    (transport_running <=> calls % 2 = 1)

====
